---- MODULE Spec2Model ----
(***************************************************************************)
(* SmartModbus: the request optimizer (address folding, gap-aware merge,   *)
(* FFD packing), the frame codecs and the master round-trip loop.          *)
(*                                                                         *)
(* C arrays are sequences (index 1 is element 0).  Unsigned C integers     *)
(* keep their width: every narrowing store is an explicit U8 / U16 / I16.  *)
(***************************************************************************)
EXTENDS Integers, Sequences, FiniteSets, TLC

VARIABLES
    pc,            \* position of the operation under study
    request,       \* mb_read_request_t: slave_id, function_code, addresses
    max_blocks,    \* capacity handed to mb_addresses_to_blocks
    cost_params,   \* mb_cost_params_t
    max_pdu_chars, \* max_pdu_chars handed to mb_ffd_pack
    blocks_in,     \* block array before the step under study
    blocks,        \* block array after it
    max_pdus,      \* capacity handed to mb_ffd_pack
    pdus,          \* PDU bins written by mb_ffd_pack
    result,        \* return value of the step or call under study
    config,        \* mb_config_t (master->config)
    plans,         \* mb_request_plan_t plans[0 .. plan_count)
    heap_log,      \* calls of malloc and free made by mb_optimize_request, in order
    codec_in,      \* what is handed to a frame encoder
    frame,         \* frame_buffer[0 .. frame_length)
    decoded,       \* what a frame decoder hands back
    op,            \* the master call in progress and its arguments
    plan_index,    \* i of the plan loop (0-based)
    data_buffer,   \* the caller's data buffer
    data_index,    \* data_index of mb_master_read_optimized
    temp_buffer,   \* temp_buffer of mb_master_read_optimized: the bytes written so far
    stats,         \* master->stats
    sent_log,      \* calls of transport.send in order: the frame and the return
    recv_log,      \* calls of transport.recv in order: the return and the bytes
    pools          \* the static block, PDU and plan pools: used[] and count of each

pipeVars == <<request, max_blocks, cost_params, max_pdu_chars, blocks_in, blocks, max_pdus, pdus>>

optVars == <<config, plans, heap_log>>

codecVars == <<codec_in, frame, decoded>>

masterVars ==
    <<op, plan_index, data_buffer, data_index, temp_buffer, stats, sent_log, recv_log, pools>>

vars == <<pc, result, pipeVars, optVars, codecVars, masterVars>>

(***************************************************************************)
(* mb_error.h                                                              *)
(***************************************************************************)
MB_SUCCESS == 0
MB_ERROR_INVALID_PARAM == -1
MB_ERROR_BUFFER_TOO_SMALL == -2
MB_ERROR_TIMEOUT == -3
MB_ERROR_CRC_MISMATCH == -4
MB_ERROR_LRC_MISMATCH == -5
MB_ERROR_INVALID_FRAME == -6
MB_ERROR_EXCEPTION_RESPONSE == -7
MB_ERROR_TRANSPORT == -8
MB_ERROR_OUT_OF_MEMORY == -9
MB_ERROR_NOT_SUPPORTED == -10
MB_ERROR_INVALID_FC == -11
MB_ERROR_INVALID_QUANTITY == -13
MB_ERROR_TOO_MANY_BLOCKS == -15
MB_ERROR_TOO_MANY_PLANS == -17
MB_ERROR_NO_MEMORY == -18

(***************************************************************************)
(* Fixed-width integer stores                                              *)
(***************************************************************************)
U8(x) == x % 256

U16(x) == x % 65536

\* conversion of an int to int16_t (two's complement, as gcc/clang define it)
I16(x) ==
    LET m == x % 65536 IN IF m >= 32768 THEN m - 65536 ELSE m

Min2(a, b) == IF a < b THEN a ELSE b

Max2(a, b) == IF a > b THEN a ELSE b

\* F applied to the value of x: x is evaluated once, before the call, the way C
\* evaluates an argument or an assignment (TLC would otherwise re-evaluate the
\* expression at every use of the parameter)
Strict(F(_), x) == CHOOSE r \in {F(v) : v \in {x}} : TRUE

(***************************************************************************)
(* fc_policy.c                                                             *)
(***************************************************************************)
Policy(fc, merge, rd, req, resp, extra, maxq) ==
    [fc |-> fc, supports_merge |-> merge, is_read |-> rd, req_fixed_chars |-> req,
     resp_fixed_chars |-> resp, extra_unit_chars |-> extra, max_quantity |-> maxq]

fc_policy_table ==
    << Policy(1, TRUE, TRUE, 6, 5, 12, 2000),
       Policy(2, TRUE, TRUE, 6, 5, 12, 2000),
       Policy(3, TRUE, TRUE, 6, 5, 200, 125),
       Policy(4, TRUE, TRUE, 6, 5, 200, 125),
       Policy(5, FALSE, FALSE, 6, 6, 0, 1),
       Policy(6, FALSE, FALSE, 6, 6, 0, 1),
       Policy(15, FALSE, FALSE, 7, 6, 0, 1968),
       Policy(16, FALSE, FALSE, 7, 6, 0, 123),
       Policy(22, FALSE, FALSE, 8, 8, 0, 1),
       Policy(23, FALSE, TRUE, 11, 5, 0, 121) >>

\* mb_fc_get_policy(fc) != NULL
mb_fc_is_valid(fc) == \E i \in DOMAIN fc_policy_table : fc_policy_table[i].fc = fc

\* the first table entry for fc (only used where mb_fc_is_valid(fc))
mb_fc_get_policy(fc) ==
    LET i == CHOOSE k \in DOMAIN fc_policy_table :
                 /\ fc_policy_table[k].fc = fc
                 /\ \A j \in DOMAIN fc_policy_table : fc_policy_table[j].fc = fc => k <= j
    IN fc_policy_table[i]

mb_fc_supports_merge(fc) == mb_fc_is_valid(fc) /\ mb_fc_get_policy(fc).supports_merge

mb_fc_is_read(fc) == mb_fc_is_valid(fc) /\ mb_fc_get_policy(fc).is_read

mb_fc_get_unit_size(fc) ==
    IF fc \in {1, 2, 5, 15} THEN 1
    ELSE IF fc \in {3, 4, 6, 16, 22, 23} THEN 2
    ELSE 0

mb_fc_get_extra_unit_chars(fc) ==
    IF mb_fc_is_valid(fc) THEN mb_fc_get_policy(fc).extra_unit_chars ELSE 0

mb_fc_get_max_quantity(fc) ==
    IF mb_fc_is_valid(fc) THEN mb_fc_get_policy(fc).max_quantity ELSE 0

(***************************************************************************)
(* char_model.c                                                            *)
(***************************************************************************)
\* uint16_t mb_calc_gap_cost(fc, gap_units): the ×100 product is computed and
\* then overwritten; the result is narrowed from uint32_t to uint16_t.
mb_calc_gap_cost(fc, gap_units) ==
    IF gap_units = 0 THEN 0
    ELSE IF fc \in {1, 2} THEN U16((gap_units + 7) \div 8)
    ELSE U16(gap_units * 2)

\* int16_t mb_calc_merge_savings: uint16_t overhead, uint16_t gap cost, the
\* int difference narrowed to int16_t.
mb_calc_merge_savings(gap_units, fc, cp) ==
    LET overhead_cost == U16(cp.req_fixed_chars + cp.resp_fixed_chars
                             + cp.gap_chars + cp.latency_chars)
        gap_cost == mb_calc_gap_cost(fc, gap_units)
    IN I16(overhead_cost - gap_cost)

\* mb_init_cost_params: the gap is set from the mode (4 or 0), never from
\* config.gap_chars.  Only called with a valid fc in this model.
mb_init_cost_params(mode, fc, latency_chars) ==
    [req_fixed_chars |-> mb_fc_get_policy(fc).req_fixed_chars,
     resp_fixed_chars |-> mb_fc_get_policy(fc).resp_fixed_chars,
     latency_chars |-> latency_chars,
     gap_chars |-> IF mode \in {"RTU", "ASCII"} THEN 4 ELSE 0]

(***************************************************************************)
(* block_utils.c                                                           *)
(***************************************************************************)
Block(slave_id, fc, start, quantity, merged) ==
    [slave_id |-> slave_id, function_code |-> fc, start_address |-> start,
     quantity |-> quantity, is_merged |-> merged]

mb_block_are_compatible(a, b) ==
    a.slave_id = b.slave_id /\ a.function_code = b.function_code

mb_block_are_adjacent(a, b) ==
    /\ mb_block_are_compatible(a, b)
    /\ a.start_address + a.quantity = b.start_address

\* uint16_t mb_block_calc_gap: the pair is ordered by start address first
mb_block_calc_gap(a0, b0) ==
    LET a == IF a0.start_address > b0.start_address THEN b0 ELSE a0
        b == IF a0.start_address > b0.start_address THEN a0 ELSE b0
        a_end == a.start_address + a.quantity
    IN IF a_end >= b.start_address THEN 0 ELSE U16(b.start_address - a_end)

\* mb_block_merge for compatible blocks: the span [min start, max end), its
\* length narrowed to uint16_t
mb_block_merge(a0, b0) ==
    LET a == IF a0.start_address > b0.start_address THEN b0 ELSE a0
        b == IF a0.start_address > b0.start_address THEN a0 ELSE b0
        a_end == a.start_address + a.quantity
        b_end == b.start_address + b.quantity
        end == Max2(a_end, b_end)
    IN Block(a.slave_id, a.function_code, a.start_address,
             U16(end - a.start_address), TRUE)

mb_block_calc_data_size(block) ==
    IF mb_fc_get_unit_size(block.function_code) = 1 THEN U16((block.quantity + 7) \div 8)
    ELSE IF mb_fc_get_unit_size(block.function_code) = 2 THEN U16(block.quantity * 2)
    ELSE 0

Swap(s, i, j) == [s EXCEPT ![i] = s[j], ![j] = s[i]]

\* one inner pass of the bubble sort: comparisons j = 1 .. n (0-based 0 .. n-1)
RECURSIVE BubbleInner(_, _, _)
BubbleInner(s, j, n) ==
    IF j > n THEN s
    ELSE LET Rest(t) == BubbleInner(t, j + 1, n)
         IN Strict(Rest, IF s[j] > s[j + 1] THEN Swap(s, j, j + 1) ELSE s)

\* outer loop: for (i = 0; i < count - 1; i++) inner pass of count - i - 1 steps
RECURSIVE BubbleOuter(_, _, _)
BubbleOuter(s, i, count) ==
    IF i >= count - 1 THEN s
    ELSE LET Rest(t) == BubbleOuter(t, i + 1, count)
         IN Strict(Rest, BubbleInner(s, 1, count - i - 1))

\* calls of the C allocator, in the order they are made: malloc(what) that
\* returned a block (ok) or NULL, and free(what)
Malloc(what) == [op |-> "malloc", what |-> what, ok |-> TRUE]

MallocFailed(what) == [op |-> "malloc", what |-> what, ok |-> FALSE]

Free(what) == [op |-> "free", what |-> what, ok |-> TRUE]

\* the grouping loop of mb_addresses_to_blocks, from index i (0-based) on.
\* st = [err, out, start, qty, max]: error seen, blocks saved, the open run,
\* the capacity.
RECURSIVE GroupRuns(_, _, _, _, _, _)
GroupRuns(sorted, i, count, slave_id, fc, st) ==
    LET Rest(t) == GroupRuns(sorted, i + 1, count, slave_id, fc, t)
    IN IF st.err # MB_SUCCESS \/ i >= count THEN st
       ELSE IF sorted[i + 1] = sorted[i] + 1
            THEN Strict(Rest, [st EXCEPT !.qty = U16(st.qty + 1)])
       ELSE IF Len(st.out) >= st.max
            THEN [st EXCEPT !.err = MB_ERROR_TOO_MANY_BLOCKS]
       ELSE Strict(Rest, [st EXCEPT !.out = Append(st.out, Block(slave_id, fc, st.start,
                                                                 st.qty, FALSE)),
                                    !.start = sorted[i + 1],
                                    !.qty = 1])

\* a folding that returns MB_ERROR_TOO_MANY_BLOCKS without releasing its
\* sorted copy
mb_addresses_to_blocks_keeping_copy(addresses, count, slave_id, fc, maxb, heap_ok) ==
    IF addresses.null THEN [result |-> MB_ERROR_INVALID_PARAM, blocks |-> <<>>, heap |-> <<>>]
    ELSE IF count = 0 THEN [result |-> MB_SUCCESS, blocks |-> <<>>, heap |-> <<>>]
    ELSE IF ~mb_fc_is_valid(fc)
         THEN [result |-> MB_ERROR_INVALID_FC, blocks |-> <<>>, heap |-> <<>>]
    ELSE IF ~heap_ok
         THEN [result |-> MB_ERROR_OUT_OF_MEMORY, blocks |-> <<>>,
               heap |-> <<MallocFailed("sorted_addresses")>>]
    ELSE
      LET Finish(st) ==
              IF st.err # MB_SUCCESS \/ Len(st.out) >= maxb
              THEN [result |-> MB_ERROR_TOO_MANY_BLOCKS, blocks |-> <<>>,
                    heap |-> <<Malloc("sorted_addresses")>>]
              ELSE [result |-> MB_SUCCESS,
                    blocks |-> Append(st.out, Block(slave_id, fc, st.start, st.qty, FALSE)),
                    heap |-> <<Malloc("sorted_addresses"), Free("sorted_addresses")>>]
          Group(sorted) ==
              Strict(Finish, GroupRuns(sorted, 1, count, slave_id, fc,
                                       [err |-> MB_SUCCESS, out |-> <<>>,
                                        start |-> sorted[1], qty |-> 1, max |-> maxb]))
      IN Strict(Group, BubbleOuter(SubSeq(addresses.mem, 1, count), 0, count))

\* int mb_addresses_to_blocks(addresses, count, slave_id, fc, blocks, max_blocks,
\* &block_count).  addresses = [null, mem]: the pointer and what it points at.
\* heap_ok: malloc of the sorted copy succeeds.
\* Returns [result, blocks]; blocks is what the call leaves in blocks[0 .. *block_count).
mb_addresses_to_blocks(addresses, count, slave_id, fc, maxb, heap_ok) ==
    IF addresses.null THEN [result |-> MB_ERROR_INVALID_PARAM, blocks |-> <<>>, heap |-> <<>>]
    ELSE IF count = 0 THEN [result |-> MB_SUCCESS, blocks |-> <<>>, heap |-> <<>>]
    ELSE IF ~mb_fc_is_valid(fc)
         THEN [result |-> MB_ERROR_INVALID_FC, blocks |-> <<>>, heap |-> <<>>]
    ELSE IF ~heap_ok
         THEN [result |-> MB_ERROR_OUT_OF_MEMORY, blocks |-> <<>>,
               heap |-> <<MallocFailed("sorted_addresses")>>]
    ELSE
      LET Finish(st) ==
              IF st.err # MB_SUCCESS
              THEN [result |-> st.err, blocks |-> <<>>,
                    heap |-> <<Malloc("sorted_addresses"), Free("sorted_addresses")>>]
              ELSE IF Len(st.out) >= maxb
                   THEN [result |-> MB_ERROR_TOO_MANY_BLOCKS, blocks |-> <<>>,
                         heap |-> <<Malloc("sorted_addresses"), Free("sorted_addresses")>>]
              ELSE [result |-> MB_SUCCESS,
                    blocks |-> Append(st.out, Block(slave_id, fc, st.start, st.qty, FALSE)),
                    heap |-> <<Malloc("sorted_addresses"), Free("sorted_addresses")>>]
          Group(sorted) ==
              Strict(Finish, GroupRuns(sorted, 1, count, slave_id, fc,
                                       [err |-> MB_SUCCESS, out |-> <<>>,
                                        start |-> sorted[1], qty |-> 1, max |-> maxb]))
      IN Strict(Group, BubbleOuter(SubSeq(addresses.mem, 1, count), 0, count))

\* qsort leaves elements that compare equal in an unspecified order: the set of
\* index arrangements of rest in ascending key order, ties in every order
RECURSIVE ArrangeByKey(_, _)
ArrangeByKey(keys, rest) ==
    IF rest = {} THEN {<<>>}
    ELSE LET least == {i \in rest : \A j \in rest : keys[i] <= keys[j]}
         IN UNION {{<<i>> \o t : t \in ArrangeByKey(keys, rest \ {i})} : i \in least}

\* mb_block_sort_by_address: qsort with compare_blocks_by_address
mb_block_sort_by_address(blks) ==
    LET keys == [i \in DOMAIN blks |-> blks[i].start_address]
    IN {[k \in DOMAIN blks |-> blks[p[k]]] : p \in ArrangeByKey(keys, DOMAIN blks)}

\* mb_block_sort_by_quantity_desc: qsort with compare_blocks_by_quantity_desc
mb_block_sort_by_quantity_desc(blks) ==
    LET keys == [i \in DOMAIN blks |-> 0 - blks[i].quantity]
    IN {[k \in DOMAIN blks |-> blks[p[k]]] : p \in ArrangeByKey(keys, DOMAIN blks)}

(***************************************************************************)
(* gap_merge.c                                                             *)
(***************************************************************************)
\* a merge test on which a tie between gap cost and overhead merges
mb_should_merge_blocks_on_tie(block_a, block_b, cp) ==
    IF ~mb_block_are_compatible(block_a, block_b) THEN FALSE
    ELSE IF ~mb_fc_supports_merge(block_a.function_code) THEN FALSE
    ELSE IF mb_block_are_adjacent(block_a, block_b) THEN TRUE
    ELSE IF mb_block_calc_gap(block_a, block_b) = 0 THEN TRUE
    ELSE mb_calc_merge_savings(mb_block_calc_gap(block_a, block_b),
                               block_a.function_code, cp) >= 0

mb_should_merge_blocks(block_a, block_b, cp) ==
    IF ~mb_block_are_compatible(block_a, block_b) THEN FALSE
    ELSE IF ~mb_fc_supports_merge(block_a.function_code) THEN FALSE
    ELSE IF mb_block_are_adjacent(block_a, block_b) THEN TRUE
    ELSE IF mb_block_calc_gap(block_a, block_b) = 0 THEN TRUE
    ELSE mb_calc_merge_savings(mb_block_calc_gap(block_a, block_b),
                               block_a.function_code, cp) > 0

\* the inner while loop: current absorbs blks[read_idx], ... while the merge
\* test says so.  read_idx is 1-based.  Returns [cur, idx].
RECURSIVE MergeAbsorb(_, _, _, _)
MergeAbsorb(blks, current, read_idx, cp) ==
    LET Rest(c) == MergeAbsorb(blks, c, read_idx + 1, cp)
    IN IF read_idx > Len(blks) THEN [cur |-> current, idx |-> read_idx]
       ELSE IF mb_should_merge_blocks(current, blks[read_idx], cp)
            THEN Strict(Rest, mb_block_merge(current, blks[read_idx]))
       ELSE [cur |-> current, idx |-> read_idx]

\* the outer while loop: one output block per iteration
RECURSIVE MergePass(_, _, _, _)
MergePass(blks, read_idx, out, cp) ==
    LET Rest(r) == MergePass(blks, r.idx, Append(out, r.cur), cp)
    IN IF read_idx > Len(blks) THEN out
       ELSE Strict(Rest, MergeAbsorb(blks, blks[read_idx], read_idx + 1, cp))

\* mb_merge_block_array: sort by address, then the merge pass.  The set of
\* arrays the call can leave in blocks[0 .. *block_count); it returns
\* MB_SUCCESS on each (mb_merge_two_blocks cannot fail after the merge test).
mb_merge_block_array(blks, cp) ==
    IF Len(blks) = 0 THEN {<<>>}
    ELSE {MergePass(s, 1, <<>>, cp) : s \in mb_block_sort_by_address(blks)}

(***************************************************************************)
(* ffd_pack.c                                                              *)
(***************************************************************************)
Pdu(slave_id, fc, start, quantity, chars) ==
    [slave_id |-> slave_id, function_code |-> fc, start_address |-> start,
     quantity |-> quantity, total_chars |-> chars]

mb_init_pdu(slave_id, fc) == Pdu(slave_id, fc, 0, 0, 0)

mb_calc_pdu_data_size(pdu) ==
    IF pdu.quantity = 0 THEN 0
    ELSE IF mb_fc_get_unit_size(pdu.function_code) = 1 THEN U16((pdu.quantity + 7) \div 8)
    ELSE IF mb_fc_get_unit_size(pdu.function_code) = 2 THEN U16(pdu.quantity * 2)
    ELSE 0

mb_block_fits_pdu(block, pdu, maxchars) ==
    IF pdu.quantity = 0 THEN mb_block_calc_data_size(block) <= maxchars
    ELSE IF block.slave_id # pdu.slave_id \/ block.function_code # pdu.function_code
         THEN FALSE
    ELSE
      LET min_addr == Min2(block.start_address, pdu.start_address)
          block_end == block.start_address + block.quantity
          pdu_end == pdu.start_address + pdu.quantity
          max_end == Max2(block_end, pdu_end)
          merged_quantity == U16(max_end - min_addr)
          unit_size == mb_fc_get_unit_size(block.function_code)
      IN IF merged_quantity > mb_fc_get_max_quantity(block.function_code) THEN FALSE
         ELSE IF unit_size = 1 THEN U16((merged_quantity + 7) \div 8) <= maxchars
         ELSE IF unit_size = 2 THEN U16(merged_quantity * 2) <= maxchars
         ELSE FALSE

\* mb_add_block_to_pdu: an empty PDU is initialised from the block with no
\* limit check; otherwise the PDU grows to the combined span.
mb_add_block_to_pdu(block, pdu) ==
    IF pdu.quantity = 0
    THEN Pdu(block.slave_id, block.function_code, block.start_address, block.quantity,
             mb_block_calc_data_size(block))
    ELSE
      LET min_addr == Min2(block.start_address, pdu.start_address)
          block_end == block.start_address + block.quantity
          pdu_end == pdu.start_address + pdu.quantity
          max_end == Max2(block_end, pdu_end)
          grown == [pdu EXCEPT !.start_address = min_addr,
                               !.quantity = U16(max_end - min_addr)]
      IN [grown EXCEPT !.total_chars = mb_calc_pdu_data_size(grown)]

\* index of the first PDU, from j on, that the block fits; 0 when none
RECURSIVE FirstFit(_, _, _, _)
FirstFit(block, bins, j, maxchars) ==
    IF j > Len(bins) THEN 0
    ELSE IF mb_block_fits_pdu(block, bins[j], maxchars) THEN j
    ELSE FirstFit(block, bins, j + 1, maxchars)

\* the FFD loop over the sorted blocks, from block i (1-based) on
RECURSIVE FfdLoop(_, _, _, _, _)
FfdLoop(sorted, i, bins, maxchars, maxpdus) ==
    LET Rest(b) == FfdLoop(sorted, i + 1, b, maxchars, maxpdus)
        Place(j) ==
            IF j # 0
            THEN Strict(Rest, [bins EXCEPT ![j] = mb_add_block_to_pdu(sorted[i], bins[j])])
            ELSE IF Len(bins) >= maxpdus
                 THEN [result |-> MB_ERROR_TOO_MANY_BLOCKS, pdus |-> <<>>,
                       heap |-> <<Malloc("sorted_blocks"), Free("sorted_blocks")>>]
            ELSE Strict(Rest, Append(bins, mb_add_block_to_pdu(sorted[i],
                                               mb_init_pdu(sorted[i].slave_id,
                                                           sorted[i].function_code))))
    IN IF i > Len(sorted)
       THEN [result |-> MB_SUCCESS, pdus |-> bins,
             heap |-> <<Malloc("sorted_blocks"), Free("sorted_blocks")>>]
       ELSE Strict(Place, FirstFit(sorted[i], bins, 1, maxchars))

\* mb_ffd_pack: the set of outcomes [result, pdus] (pdus = pdus[0 .. *pdu_count));
\* malloc of the working copy may fail.
mb_ffd_pack(blks, maxchars, maxpdus) ==
    IF Len(blks) = 0 THEN {[result |-> MB_SUCCESS, pdus |-> <<>>, heap |-> <<>>]}
    ELSE {[result |-> MB_ERROR_OUT_OF_MEMORY, pdus |-> <<>>,
           heap |-> <<MallocFailed("sorted_blocks")>>]}
         \cup {FfdLoop(s, 1, <<>>, maxchars, maxpdus) :
                 s \in mb_block_sort_by_quantity_desc(blks)}

Ptr(seq) == [null |-> FALSE, mem |-> seq]

(***************************************************************************)
(* master_api.c: mb_config_default; request_optimizer.c (heap build, the   *)
(* default: MB_USE_STATIC_MEMORY off)                                      *)
(***************************************************************************)
\* memset 0 leaves both transport callbacks NULL; the caller installs them
mb_config_default(mode) ==
    [mode |-> mode, max_pdu_chars |-> 253, timeout_ms |-> 1000,
     gap_chars |-> IF mode \in {"RTU", "ASCII"} THEN 4 ELSE 0,
     latency_chars |-> IF mode \in {"RTU", "ASCII"} THEN 2 ELSE 1,
     send_null |-> TRUE, recv_null |-> TRUE]

\* the plan the optimizer writes for one PDU
PlanOfPdu(pdu) ==
    [slave_id |-> pdu.slave_id, function_code |-> pdu.function_code,
     start_address |-> pdu.start_address, quantity |-> pdu.quantity,
     frame_length |-> 0, expected_response_length |-> 0]

\* the pool sizes of a build with MB_USE_STATIC_MEMORY
MB_MAX_BLOCKS == 32

MB_MAX_PDUS == 16

\* heap holds the allocator calls the optimizer and its helpers made
OptOutcome(res, pl) == [crashed |-> FALSE, result |-> res, plans |-> pl, heap |-> <<>>]

OptCrash == [crashed |-> TRUE, result |-> MB_SUCCESS, plans |-> <<>>, heap |-> <<>>]

\* the outcome o of a call that made the allocator calls h
WithHeap(o, h) == [o EXCEPT !.heap = h]

\* step 3 of mb_optimize_request: the local cost_params after the call of
\* mb_init_cost_params, which leaves it as it was for an unknown function code
OptCostParams(req, cfg, env) ==
    IF mb_fc_is_valid(req.function_code)
    THEN mb_init_cost_params(cfg.mode, req.function_code, cfg.latency_chars)
    ELSE env.uninit_cost

\* mb_optimize_request(request, config, plans, max_plans, &plan_count): the set
\* of outcomes.
\*
\* The call of mb_addresses_to_blocks passes (slave_id, function_code,
\* addresses, address_count) where the function takes (addresses, count,
\* slave_id, fc).  So the callee reads `function_code` 16-bit words from the
\* memory address whose value is slave_id, labels the blocks with the low byte
\* of the pointer request->addresses as slave and the low byte of
\* address_count as function code.  The read through the forged pointer is
\* undefined: env says whether it faults (wild_ok), what it reads (wild), and
\* the pointer's low byte (ptr_low).  env.heap_fail names the malloc that
\* returns NULL, if any.  env.static_memory says whether the library was built
\* with MB_USE_STATIC_MEMORY: blocks and PDUs then live in arrays of
\* MB_MAX_BLOCKS and MB_MAX_PDUS entries on the stack instead of the heap.
mb_optimize_request(req, cfg, max_plans, env) ==
    LET address_count == Len(req.addresses)
        cp == OptCostParams(req, cfg, env)
        \* malloc and free of the arrays blocks and pdus in the heap build
        OwnMalloc(what) == IF env.static_memory THEN <<>> ELSE <<Malloc(what)>>
        OwnFree(what) == IF env.static_memory THEN <<>> ELSE <<Free(what)>>
        Plans(r, before) ==
            WithHeap(IF r.result # MB_SUCCESS THEN OptOutcome(r.result, <<>>)
                     ELSE IF Len(r.pdus) > max_plans
                          THEN OptOutcome(MB_ERROR_TOO_MANY_PLANS, <<>>)
                     ELSE OptOutcome(MB_SUCCESS,
                                     [i \in DOMAIN r.pdus |-> PlanOfPdu(r.pdus[i])]),
                     before \o OwnMalloc("pdus") \o r.heap
                         \o OwnFree("blocks") \o OwnFree("pdus"))
        Pack(merged, before) ==
            IF ~env.static_memory /\ env.heap_fail = "pdus"
            THEN {WithHeap(OptOutcome(MB_ERROR_NO_MEMORY, <<>>),
                           before \o <<MallocFailed("pdus"), Free("blocks")>>)}
            ELSE {Plans(r, before) : r \in mb_ffd_pack(merged, cfg.max_pdu_chars,
                                                       IF env.static_memory THEN MB_MAX_PDUS
                                                       ELSE Len(merged))}
        Merge(folded) ==
            IF folded.result # MB_SUCCESS
            THEN {WithHeap(OptOutcome(folded.result, <<>>),
                           OwnMalloc("blocks") \o folded.heap \o OwnFree("blocks"))}
            ELSE UNION {Pack(m, OwnMalloc("blocks") \o folded.heap) :
                           m \in mb_merge_block_array(folded.blocks, cp)}
        reads_memory == /\ req.slave_id # 0
                        /\ req.function_code # 0
                        /\ mb_fc_is_valid(U8(address_count))
                        /\ env.heap_fail # "sorted"
    IN IF address_count = 0 THEN {OptOutcome(MB_SUCCESS, <<>>)}
       ELSE IF max_plans = 0 THEN {OptOutcome(MB_ERROR_INVALID_PARAM, <<>>)}
       ELSE IF ~env.static_memory /\ env.heap_fail = "blocks"
            THEN {WithHeap(OptOutcome(MB_ERROR_NO_MEMORY, <<>>), <<MallocFailed("blocks")>>)}
       ELSE IF reads_memory /\ ~env.wild_ok THEN {OptCrash}
       ELSE Strict(Merge,
                   mb_addresses_to_blocks([null |-> req.slave_id = 0, mem |-> env.wild],
                                          req.function_code, env.ptr_low,
                                          U8(address_count),
                                          IF env.static_memory THEN MB_MAX_BLOCKS
                                          ELSE U16(address_count),
                                          env.heap_fail # "sorted"))

(***************************************************************************)
(* crc16.c is not among the sources: CRC-16/Modbus as the specification    *)
(* states it (polynomial 0xA001 reflected, initial value 0xFFFF, no final  *)
(* XOR; verify re-computes over all but the last two bytes and matches     *)
(* them as low byte, high byte)                                            *)
(***************************************************************************)
\* bit i of x
BitOf(x, i) == (x \div (2 ^ i)) % 2

\* bitwise exclusive or of two 16-bit values
BitXor(a, b) ==
    LET d(i) == ((BitOf(a, i) + BitOf(b, i)) % 2) * (2 ^ i)
    IN d(0) + d(1) + d(2) + d(3) + d(4) + d(5) + d(6) + d(7)
       + d(8) + d(9) + d(10) + d(11) + d(12) + d(13) + d(14) + d(15)

\* k shift-and-conditionally-xor steps on crc
RECURSIVE CrcShift(_, _)
CrcShift(crc, k) ==
    LET Rest(c) == CrcShift(c, k - 1)
    IN IF k = 0 THEN crc
       ELSE Strict(Rest, IF crc % 2 = 1 THEN BitXor(crc \div 2, 40961) ELSE crc \div 2)

\* the CRC register after bytes lo .. hi of data, starting from crc
RECURSIVE CrcBytes(_, _, _, _)
CrcBytes(data, lo, hi, crc) ==
    LET mid == (lo + hi) \div 2
        Upper(c) == CrcBytes(data, mid + 1, hi, c)
    IN IF lo > hi THEN crc
       ELSE IF lo = hi THEN CrcShift(BitXor(crc, data[lo]), 8)
       ELSE Strict(Upper, CrcBytes(data, lo, mid, crc))

mb_crc16(data) == CrcBytes(data, 1, Len(data), 65535)

mb_crc16_verify(frm) ==
    /\ Len(frm) >= 2
    /\ LET crc == mb_crc16(SubSeq(frm, 1, Len(frm) - 2))
       IN /\ frm[Len(frm) - 1] = crc % 256
          /\ frm[Len(frm)] = crc \div 256

(***************************************************************************)
(* lrc.c                                                                   *)
(***************************************************************************)
\* the loop lrc += data[i] on a uint8_t over bytes lo .. hi, in index order
\* (the range is halved so that the recursion stays shallow)
RECURSIVE LrcSum(_, _, _, _)
LrcSum(data, lo, hi, lrc) ==
    LET mid == (lo + hi) \div 2
        Upper(l) == LrcSum(data, mid + 1, hi, l)
    IN IF lo > hi THEN lrc
       ELSE IF lo = hi THEN U8(lrc + data[lo])
       ELSE Strict(Upper, LrcSum(data, lo, mid, lrc))

\* (uint8_t)(-((int8_t)lrc)) of the byte sum
mb_lrc(data) ==
    IF Len(data) = 0 THEN 0 ELSE U8(256 - LrcSum(data, 1, Len(data), 0))

(***************************************************************************)
(* rtu_frame.c, ascii_frame.c, tcp_frame.c, frame_builder.c                *)
(* Frames and PDUs are sequences of bytes.  A builder returns              *)
(* [result, frame]: result is the frame length or a negative error.  A     *)
(* parser returns [result, transaction_id, slave_id, fc, pdu]; no caller   *)
(* reads the outputs of a failed parse.                                    *)
(***************************************************************************)
BuildFail(err) == [result |-> err, frame |-> <<>>]

Built(frm) == [result |-> Len(frm), frame |-> frm]

ParseFail(err) ==
    [result |-> err, transaction_id |-> 0, slave_id |-> 0, fc |-> 0, pdu |-> <<>>]

Parsed(tid, slave_id, fc, pdu) ==
    [result |-> MB_SUCCESS, transaction_id |-> tid, slave_id |-> slave_id, fc |-> fc,
     pdu |-> pdu]

mb_rtu_build_frame(slave_id, fc, pdu, buffer_size) ==
    LET body == <<slave_id, fc>> \o pdu
        Finish(crc) == Built(body \o <<crc % 256, (crc \div 256) % 256>>)
    IN IF buffer_size < U16(1 + 1 + Len(pdu) + 2) THEN BuildFail(MB_ERROR_BUFFER_TOO_SMALL)
       ELSE Strict(Finish, mb_crc16(body))

mb_rtu_parse_frame(frm) ==
    IF Len(frm) < 4 THEN ParseFail(MB_ERROR_INVALID_FRAME)
    ELSE IF ~mb_crc16_verify(frm) THEN ParseFail(MB_ERROR_CRC_MISMATCH)
    ELSE Parsed(0, frm[1], frm[2], SubSeq(frm, 3, Len(frm) - 2))

\* hex_chars[n] of "0123456789ABCDEF", as a character code
HexChar(n) == IF n < 10 THEN 48 + n ELSE 55 + n

\* a wrong encoder: the low nibble first
byte_to_hex_low_first(byte) == <<HexChar(byte % 16), HexChar((byte \div 16) % 16)>>

byte_to_hex(byte) == <<HexChar((byte \div 16) % 16), HexChar(byte % 16)>>

\* value of one hex digit, -1 when the character is none
HexNibble(c) ==
    IF c >= 48 /\ c <= 57 THEN c - 48
    ELSE IF c >= 65 /\ c <= 70 THEN c - 65 + 10
    ELSE IF c >= 97 /\ c <= 102 THEN c - 97 + 10
    ELSE -1

\* hex_to_byte: [rc, byte], rc = -1 when a character is no hex digit
hex_to_byte(c_high, c_low) ==
    IF HexNibble(c_high) = -1 \/ HexNibble(c_low) = -1 THEN [rc |-> -1, byte |-> 0]
    ELSE [rc |-> 0, byte |-> U8(HexNibble(c_high) * 16 + HexNibble(c_low))]

\* the hex characters of a byte sequence
HexOf(bytes) ==
    [k \in 1..(2 * Len(bytes)) |-> byte_to_hex(bytes[(k + 1) \div 2])[2 - (k % 2)]]

mb_ascii_build_frame(slave_id, fc, pdu, buffer_size) ==
    LET Finish(lrc) ==
            Built(<<58>> \o byte_to_hex(slave_id) \o byte_to_hex(fc) \o HexOf(pdu)
                  \o byte_to_hex(lrc) \o <<13, 10>>)
    IN IF buffer_size < U16(1 + 2 + 2 + Len(pdu) * 2 + 2 + 2)
       THEN BuildFail(MB_ERROR_BUFFER_TOO_SMALL)
       ELSE Strict(Finish, mb_lrc(<<slave_id, fc>> \o pdu))

mb_ascii_parse_frame(frm) ==
    LET n == Len(frm)
        slave == hex_to_byte(frm[2], frm[3])
        fc == hex_to_byte(frm[4], frm[5])
        pdu_hex_len == n - 1 - 2 - 2 - 2 - 2
        pdu_length == pdu_hex_len \div 2
        pdu == [i \in 1..pdu_length |-> hex_to_byte(frm[4 + 2 * i], frm[5 + 2 * i])]
        pos == IF pdu_length > 0 THEN 6 + 2 * pdu_length ELSE 6 + pdu_hex_len
        frame_lrc == hex_to_byte(frm[pos], frm[pos + 1])
        bytes == [i \in 1..pdu_length |-> pdu[i].byte]
    IN IF n < 9 THEN ParseFail(MB_ERROR_INVALID_FRAME)
       ELSE IF frm[1] # 58 THEN ParseFail(MB_ERROR_INVALID_FRAME)
       ELSE IF frm[n - 1] # 13 \/ frm[n] # 10 THEN ParseFail(MB_ERROR_INVALID_FRAME)
       ELSE IF slave.rc # 0 THEN ParseFail(MB_ERROR_INVALID_FRAME)
       ELSE IF fc.rc # 0 THEN ParseFail(MB_ERROR_INVALID_FRAME)
       ELSE IF \E i \in 1..pdu_length : pdu[i].rc # 0 THEN ParseFail(MB_ERROR_INVALID_FRAME)
       ELSE IF frame_lrc.rc # 0 THEN ParseFail(MB_ERROR_INVALID_FRAME)
       ELSE IF mb_lrc(<<slave.byte, fc.byte>> \o bytes) # frame_lrc.byte
            THEN ParseFail(MB_ERROR_LRC_MISMATCH)
       ELSE Parsed(0, slave.byte, fc.byte, bytes)

mb_tcp_build_frame(transaction_id, unit_id, fc, pdu, buffer_size) ==
    LET length == U16(1 + 1 + Len(pdu))
    IN IF buffer_size < U16(7 + 1 + Len(pdu)) THEN BuildFail(MB_ERROR_BUFFER_TOO_SMALL)
       ELSE Built(<<(transaction_id \div 256) % 256, transaction_id % 256, 0, 0,
                    (length \div 256) % 256, length % 256, unit_id, fc>> \o pdu)

\* an MBAP decoder that does not look at the protocol identifier
mb_tcp_parse_frame_any_protocol(frm) ==
    LET transaction_id == frm[1] * 256 + frm[2]
        length == frm[5] * 256 + frm[6]
    IN IF Len(frm) < 8 THEN ParseFail(MB_ERROR_INVALID_FRAME)
       ELSE IF 6 + length # Len(frm) THEN ParseFail(MB_ERROR_INVALID_FRAME)
       ELSE Parsed(transaction_id, frm[7], frm[8], SubSeq(frm, 9, 8 + U16(length - 2)))

mb_tcp_parse_frame(frm) ==
    LET transaction_id == frm[1] * 256 + frm[2]
        protocol_id == frm[3] * 256 + frm[4]
        length == frm[5] * 256 + frm[6]
    IN IF Len(frm) < 8 THEN ParseFail(MB_ERROR_INVALID_FRAME)
       ELSE IF protocol_id # 0 THEN ParseFail(MB_ERROR_INVALID_FRAME)
       ELSE IF 6 + length # Len(frm) THEN ParseFail(MB_ERROR_INVALID_FRAME)
       ELSE Parsed(transaction_id, frm[7], frm[8], SubSeq(frm, 9, 8 + U16(length - 2)))

\* mb_build_frame: [result, frame], result = MB_SUCCESS or the builder's error
\* (a builder result that is not positive is returned as it is)
mb_build_frame(slave_id, fc, pdu, mode, buffer_size) ==
    LET Wrap(b) == IF b.result > 0 THEN [result |-> MB_SUCCESS, frame |-> b.frame]
                   ELSE b
    IN IF mode = "RTU" THEN Strict(Wrap, mb_rtu_build_frame(slave_id, fc, pdu, buffer_size))
       ELSE IF mode = "ASCII"
            THEN Strict(Wrap, mb_ascii_build_frame(slave_id, fc, pdu, buffer_size))
       ELSE IF mode = "TCP"
            THEN Strict(Wrap, mb_tcp_build_frame(0, slave_id, fc, pdu, buffer_size))
       ELSE BuildFail(MB_ERROR_NOT_SUPPORTED)

mb_parse_frame(frm, mode) ==
    IF mode = "RTU" THEN mb_rtu_parse_frame(frm)
    ELSE IF mode = "ASCII" THEN mb_ascii_parse_frame(frm)
    ELSE IF mode = "TCP" THEN mb_tcp_parse_frame(frm)
    ELSE ParseFail(MB_ERROR_NOT_SUPPORTED)

(***************************************************************************)
(* response_parser.c.  A data buffer is the sequence of its bytes in       *)
(* memory; big_endian is the byte order of the host.                       *)
(***************************************************************************)
\* the two bytes of a uint16_t as the host stores them
WordBytes(w, big_endian) ==
    IF big_endian THEN <<w \div 256, w % 256>> ELSE <<w % 256, w \div 256>>

\* the uint16_t the host reads from two bytes at increasing addresses
WordOf(b0, b1, big_endian) ==
    IF big_endian THEN 256 * b0 + b1 ELSE b0 + 256 * b1

WordsToBytes(words, big_endian) ==
    [k \in 1..(2 * Len(words)) |->
        WordBytes(words[(k + 1) \div 2], big_endian)[2 - (k % 2)]]

\* writing `bytes` at the start of a buffer keeps what lies behind them
StoreBytes(buffer, bytes) ==
    IF Len(bytes) >= Len(buffer) THEN bytes
    ELSE bytes \o SubSeq(buffer, Len(bytes) + 1, Len(buffer))

ParseRes(res, buffer) == [result |-> res, buffer |-> buffer, overrun |-> FALSE]

\* the conversion loop ran past the end of the PDU and of the data buffer
ParseOverrun(buffer) == [result |-> MB_SUCCESS, buffer |-> buffer, overrun |-> TRUE]

\* FC01/02: byte_count bytes are copied as they are
parse_read_bits_response(pdu, quantity, buffer) ==
    IF Len(pdu) < 1 THEN ParseRes(MB_ERROR_INVALID_FRAME, buffer)
    ELSE LET byte_count == pdu[1]
             expected_bytes == U16((quantity + 7) \div 8)
         IN IF byte_count # expected_bytes \/ Len(pdu) < 1 + byte_count
            THEN ParseRes(MB_ERROR_INVALID_FRAME, buffer)
            ELSE ParseRes(MB_SUCCESS, StoreBytes(buffer, SubSeq(pdu, 2, 1 + byte_count)))

\* FC03/04: quantity big-endian words are stored as host words.  The byte
\* count is compared with the uint16_t product quantity * 2, and the loop runs
\* to quantity: when the product wrapped, the loop reads past the PDU and
\* writes past quantity > 32767 words of the data buffer.
parse_read_registers_response(pdu, quantity, buffer, big_endian) ==
    IF Len(pdu) < 1 THEN ParseRes(MB_ERROR_INVALID_FRAME, buffer)
    ELSE LET byte_count == pdu[1]
             expected_bytes == U16(quantity * 2)
             words == [i \in 1..quantity |-> U16(256 * pdu[2 * i] + pdu[2 * i + 1])]
         IN IF byte_count # expected_bytes \/ Len(pdu) < 1 + byte_count
            THEN ParseRes(MB_ERROR_INVALID_FRAME, buffer)
            ELSE IF quantity * 2 > byte_count THEN ParseOverrun(buffer)
            ELSE ParseRes(MB_SUCCESS, StoreBytes(buffer, WordsToBytes(words, big_endian)))

parse_write_single_coil_response(pdu, expected_addr, expected_value) ==
    IF Len(pdu) < 4 THEN MB_ERROR_INVALID_FRAME
    ELSE LET addr == 256 * pdu[1] + pdu[2]
             value == 256 * pdu[3] + pdu[4]
         IN IF addr # expected_addr THEN MB_ERROR_INVALID_FRAME
            ELSE IF (value = 65280) # expected_value THEN MB_ERROR_INVALID_FRAME
            ELSE MB_SUCCESS

parse_write_single_register_response(pdu, expected_addr, expected_value) ==
    IF Len(pdu) < 4 THEN MB_ERROR_INVALID_FRAME
    ELSE LET addr == 256 * pdu[1] + pdu[2]
             value == 256 * pdu[3] + pdu[4]
         IN IF addr # expected_addr \/ value # expected_value
            THEN MB_ERROR_INVALID_FRAME
            ELSE MB_SUCCESS

parse_write_multiple_response(pdu, expected_addr, expected_quantity) ==
    IF Len(pdu) < 4 THEN MB_ERROR_INVALID_FRAME
    ELSE LET addr == 256 * pdu[1] + pdu[2]
             quantity == 256 * pdu[3] + pdu[4]
         IN IF addr # expected_addr \/ quantity # expected_quantity
            THEN MB_ERROR_INVALID_FRAME
            ELSE MB_SUCCESS

\* a read-response parser that does not look at the high bit of fc
mb_parse_read_response_no_exception(fc, pdu, quantity, buffer, big_endian) ==
    IF fc \in {1, 2} THEN parse_read_bits_response(pdu, quantity, buffer)
    ELSE IF fc \in {3, 4}
         THEN parse_read_registers_response(pdu, quantity, buffer, big_endian)
    ELSE ParseRes(MB_ERROR_INVALID_FC, buffer)

\* mb_parse_read_response(fc, pdu_data, pdu_length, quantity, data_buffer):
\* fc is the function code of the response frame
mb_parse_read_response(fc, pdu, quantity, buffer, big_endian) ==
    IF fc >= 128
    THEN IF Len(pdu) >= 1 THEN ParseRes(MB_ERROR_EXCEPTION_RESPONSE, buffer)
         ELSE ParseRes(MB_ERROR_INVALID_FRAME, buffer)
    ELSE IF fc \in {1, 2} THEN parse_read_bits_response(pdu, quantity, buffer)
    ELSE IF fc \in {3, 4}
         THEN parse_read_registers_response(pdu, quantity, buffer, big_endian)
    ELSE ParseRes(MB_ERROR_INVALID_FC, buffer)

\* mb_parse_write_response(fc, pdu_data, pdu_length, address, quantity,
\* expected_data): expected is [null, coil, word], what the pointer gives when
\* it is read as a bool and as a uint16_t
mb_parse_write_response(fc, pdu, address, quantity, expected) ==
    IF fc >= 128
    THEN IF Len(pdu) >= 1 THEN MB_ERROR_EXCEPTION_RESPONSE ELSE MB_ERROR_INVALID_FRAME
    ELSE IF fc = 5
         THEN IF expected.null THEN MB_ERROR_INVALID_PARAM
              ELSE parse_write_single_coil_response(pdu, address, expected.coil)
    ELSE IF fc = 6
         THEN IF expected.null THEN MB_ERROR_INVALID_PARAM
              ELSE parse_write_single_register_response(pdu, address, expected.word)
    ELSE IF fc \in {15, 16} THEN parse_write_multiple_response(pdu, address, quantity)
    ELSE MB_ERROR_INVALID_FC


(***************************************************************************)
(* Input domains                                                           *)
(***************************************************************************)
\* longest address list drawn element by element
MaxAddrCount == 3

\* largest block array handed to the merger directly
MaxBlockCount == 3

\* the 16-bit address space
AddrSpace == 65536

SeqsUpTo(S, n) == UNION {[1..k -> S] : k \in 0..n}

Range(a, n) == [i \in 1..n |-> a + i - 1]

AddrSample == {0, 1, 2, 11, 65535}

\* RTU/ASCII defaults for FC01-04 (overhead 17), TCP defaults (overhead 12),
\* and the largest values the uint8_t fields hold
CostSample ==
    {[req_fixed_chars |-> 6, resp_fixed_chars |-> 5, gap_chars |-> 4, latency_chars |-> 2],
     [req_fixed_chars |-> 6, resp_fixed_chars |-> 5, gap_chars |-> 0, latency_chars |-> 1],
     [req_fixed_chars |-> 255, resp_fixed_chars |-> 255, gap_chars |-> 255, latency_chars |-> 255]}

NoRequest == [slave_id |-> 0, function_code |-> 0, addresses |-> <<>>]

NoCost == [req_fixed_chars |-> 0, resp_fixed_chars |-> 0, gap_chars |-> 0, latency_chars |-> 0]

NoConfig == [mode |-> "NONE"]

NoCodecIn == [variant |-> "NONE"]

NoDecoded == [result |-> 0]

NoOp == [kind |-> "none"]

\* no pool has been set up
NoPools == <<>>

NoStats ==
    [total_requests |-> 0, optimized_requests |-> 0, rounds_saved |-> [hi |-> 0, lo |-> 0],
     blocks_merged |-> [hi |-> 0, lo |-> 0], total_chars_sent |-> 0, total_chars_recv |-> 0]

\* the variables a specification does not use stay at these values
PipeIdle ==
    /\ request = NoRequest
    /\ max_blocks = 0
    /\ cost_params = NoCost
    /\ max_pdu_chars = 0
    /\ blocks_in = <<>>
    /\ blocks = <<>>
    /\ max_pdus = 0
    /\ pdus = <<>>

OptIdle ==
    /\ config = NoConfig
    /\ plans = <<>>
    /\ heap_log = <<>>

CodecIdle ==
    /\ codec_in = NoCodecIn
    /\ frame = <<>>
    /\ decoded = NoDecoded

MasterIdle ==
    /\ op = NoOp
    /\ plan_index = 0
    /\ data_buffer = <<>>
    /\ data_index = 0
    /\ temp_buffer = <<>>
    /\ stats = NoStats
    /\ sent_log = <<>>
    /\ recv_log = <<>>
    /\ pools = NoPools

(***************************************************************************)
(* SpecFold: mb_addresses_to_blocks on drawn address lists                 *)
(***************************************************************************)
FoldInit ==
    /\ pc = "fold_input"
    /\ request \in [slave_id : {1}, function_code : {1, 3, 7},
                    addresses : SeqsUpTo(AddrSample, MaxAddrCount)]
    /\ max_blocks \in {1, MaxAddrCount}
    /\ cost_params = NoCost
    /\ max_pdu_chars = 0
    /\ blocks_in = <<>>
    /\ blocks = <<>>
    /\ max_pdus = 0
    /\ pdus = <<>>
    /\ result = MB_SUCCESS
    /\ OptIdle /\ CodecIdle /\ MasterIdle

FoldStep ==
    /\ pc = "fold_input"
    /\ \E heap_ok \in BOOLEAN :
       \E r \in {mb_addresses_to_blocks(Ptr(request.addresses), Len(request.addresses),
                                         request.slave_id, request.function_code,
                                         max_blocks, heap_ok)} :
          /\ blocks' = r.blocks
          /\ result' = r.result
    /\ pc' = "folded"
    /\ UNCHANGED <<request, max_blocks, cost_params, max_pdu_chars, blocks_in, max_pdus, pdus>>
    /\ UNCHANGED <<optVars, codecVars, masterVars>>

FoldNext == FoldStep

SpecFold == FoldInit /\ [][FoldNext]_vars

BlockEnd(b) == b.start_address + b.quantity

BlockSpan(b) == {a \in 0..(AddrSpace - 1) : b.start_address <= a /\ a < BlockEnd(b)}

AddrSet(addrs) == {addrs[i] : i \in DOMAIN addrs}

\* C3: whenever mb_addresses_to_blocks succeeds, its blocks are sorted by start
\* address, pairwise non-overlapping, maximal runs of adjacent addresses, and
\* cover exactly the distinct requested addresses (duplicates collapse).
C3_FoldIsRunDecomposition ==
    (pc = "folded" /\ result = MB_SUCCESS) =>
        /\ \A i \in 1..(Len(blocks) - 1) :
              /\ blocks[i].start_address < blocks[i + 1].start_address
              /\ BlockEnd(blocks[i]) < blocks[i + 1].start_address
        /\ \A i \in DOMAIN blocks :
              /\ blocks[i].quantity >= 1
              /\ \A a \in blocks[i].start_address..(BlockEnd(blocks[i]) - 1) :
                    a \in AddrSet(request.addresses)
        /\ \A a \in AddrSet(request.addresses) :
              \E i \in DOMAIN blocks :
                  blocks[i].start_address <= a /\ a < BlockEnd(blocks[i])

(***************************************************************************)
(* SpecMerge: mb_merge_block_array on drawn arrays of compatible blocks    *)
(***************************************************************************)
\* blocks as the data model admits them: quantity >= 1, start + quantity <= 65536
BlockSample(fc) ==
    {Block(1, fc, a, q, FALSE) : a \in {0, 2, 5, 20, 65535}, q \in {1, 2}}
        \ {Block(1, fc, 65535, 2, FALSE)}

MergeInit ==
    /\ pc = "merge_input"
    /\ request = NoRequest
    /\ max_blocks = 0
    /\ cost_params \in CostSample
    /\ max_pdu_chars = 0
    /\ \E fc \in {1, 3, 6} : blocks_in \in SeqsUpTo(BlockSample(fc), MaxBlockCount)
    /\ blocks = <<>>
    /\ max_pdus = 0
    /\ pdus = <<>>
    /\ result = MB_SUCCESS
    /\ OptIdle /\ CodecIdle /\ MasterIdle

MergeStep ==
    /\ pc = "merge_input"
    /\ \E out \in mb_merge_block_array(blocks_in, cost_params) : blocks' = out
    /\ result' = MB_SUCCESS
    /\ pc' = "merged"
    /\ UNCHANGED <<request, max_blocks, cost_params, max_pdu_chars, blocks_in, max_pdus, pdus>>
    /\ UNCHANGED <<optVars, codecVars, masterVars>>

MergeNext == MergeStep

SpecMerge == MergeInit /\ [][MergeNext]_vars

\* the span of the input blocks whose start-address rank lies in lo..hi is
\* [MinStart, MaxEnd)
RunMinStart(blks, S) ==
    CHOOSE m \in {blks[i].start_address : i \in S} :
        \A i \in S : m <= blks[i].start_address

RunMaxEnd(blks, S) ==
    CHOOSE m \in {BlockEnd(blks[i]) : i \in S} : \A i \in S : m >= BlockEnd(blks[i])

\* S is a run of consecutive blocks in address order: whatever starts between
\* two members of S is in S
IsAddressRun(blks, S) ==
    /\ S # {}
    /\ \A i, j \in S : \A k \in DOMAIN blks :
          (blks[i].start_address < blks[k].start_address
           /\ blks[k].start_address < blks[j].start_address) => k \in S

\* C4: mb_merge_block_array leaves no more blocks than it was given, sorted by
\* start address and non-overlapping; every output block is exactly the span
\* [min start, max end) of a run of consecutive (in address order) input blocks
\* and every input block lies inside some output block.
C4_MergeOutputIsRunSpans ==
    pc = "merged" =>
        /\ Len(blocks) <= Len(blocks_in)
        /\ \A i \in 1..(Len(blocks) - 1) :
              /\ blocks[i].start_address <= blocks[i + 1].start_address
              /\ BlockEnd(blocks[i]) <= blocks[i + 1].start_address
        /\ \A i \in DOMAIN blocks :
              \E S \in SUBSET (DOMAIN blocks_in) :
                  /\ IsAddressRun(blocks_in, S)
                  /\ blocks[i].start_address = RunMinStart(blocks_in, S)
                  /\ BlockEnd(blocks[i]) = RunMaxEnd(blocks_in, S)
        /\ \A k \in DOMAIN blocks_in :
              \E i \in DOMAIN blocks :
                  /\ blocks[i].start_address <= blocks_in[k].start_address
                  /\ BlockEnd(blocks_in[k]) <= BlockEnd(blocks[i])

(***************************************************************************)
(* SpecGap: mb_should_merge_blocks on two blocks a drawn gap apart         *)
(***************************************************************************)
\* gaps around every point where the 16-bit gap cost or the 16-bit savings
\* can change sign, and the two ends of the range
GapSample ==
    {0, 1, 5, 6, 7, 8, 9, 96, 97, 135, 136, 137, 510, 8160,
     16392, 16393, 32776, 32777, 49161, 65534}

GapInit ==
    /\ pc = "gap_input"
    /\ cost_params \in CostSample
    /\ \E fc \in {1, 3, 4} : \E g \in GapSample :
          blocks_in = <<Block(1, fc, 0, 1, FALSE), Block(1, fc, g + 1, 1, FALSE)>>
    /\ request = NoRequest
    /\ max_blocks = 0
    /\ max_pdu_chars = 0
    /\ blocks = <<>>
    /\ max_pdus = 0
    /\ pdus = <<>>
    /\ result = 0
    /\ OptIdle /\ CodecIdle /\ MasterIdle

\* result holds the bool the call returns (1 = merge)
GapStep ==
    /\ pc = "gap_input"
    /\ result' = IF mb_should_merge_blocks(blocks_in[1], blocks_in[2], cost_params)
                 THEN 1 ELSE 0
    /\ pc' = "gap_decided"
    /\ UNCHANGED <<pipeVars, optVars, codecVars, masterVars>>

GapNext == GapStep

SpecGap == GapInit /\ [][GapNext]_vars

\* C5: if mb_should_merge_blocks merges two compatible blocks g units apart,
\* it also merges them at every smaller gap g' < g (same function code, same
\* cost parameters), for gaps anywhere in 0 .. 65534.
C5_MergeMonotoneInGap ==
    (pc = "gap_decided" /\ result = 1) =>
        \A g \in GapSample :
            g < mb_block_calc_gap(blocks_in[1], blocks_in[2]) =>
                mb_should_merge_blocks(blocks_in[1],
                                       [blocks_in[2] EXCEPT !.start_address = g + 1],
                                       cost_params)

\* the unrequested units between the two drawn blocks, the first of which
\* lies below the second
UnitsBetween == blocks_in[2].start_address
                    - (blocks_in[1].start_address + blocks_in[1].quantity)

\* the cost in characters of reading UnitsBetween more units: two per
\* register, one per eight bits or part of them
CostOfUnitsBetween ==
    IF blocks_in[1].function_code \in {1, 2} THEN (UnitsBetween + 7) \div 8
    ELSE 2 * UnitsBetween

\* the overhead of one more round trip
RoundTripOverhead ==
    cost_params.req_fixed_chars + cost_params.resp_fixed_chars
        + cost_params.gap_chars + cost_params.latency_chars

\* C18: two compatible blocks of a merge-supporting function code with at
\* least one unit between them, whose gap cost equals the round-trip overhead
\* exactly, are not merged by mb_should_merge_blocks.
C18_TieNeverMerges ==
    (/\ pc = "gap_decided"
     /\ blocks_in[1].slave_id = blocks_in[2].slave_id
     /\ blocks_in[1].function_code = blocks_in[2].function_code
     /\ blocks_in[1].function_code \in {1, 2, 3, 4}
     /\ UnitsBetween >= 1
     /\ CostOfUnitsBetween = RoundTripOverhead)
        => result = 0

\* holding registers 6 apart were tested against an overhead of 12 and left
\* apart
C18_SixRegistersAgainstTwelve ==
    /\ pc = "gap_decided"
    /\ blocks_in[1].function_code = 3
    /\ blocks_in[2].function_code = 3
    /\ UnitsBetween = 6
    /\ RoundTripOverhead = 12
    /\ result = 0

(***************************************************************************)
(* SpecPack: address list -> mb_addresses_to_blocks -> mb_merge_block_array *)
(* -> mb_ffd_pack, each called with the roles its declaration gives         *)
(***************************************************************************)
\* number of addresses in the long list: every fifth address from 0 on (a gap
\* of 4 units costs at most 8 characters, less than every overhead drawn)
StrideCount == 26

StrideRun == [i \in 1..StrideCount |-> 5 * (i - 1)]

PackAddrLists == SeqsUpTo(AddrSample, MaxAddrCount) \cup {StrideRun}

PackInit ==
    /\ pc = "pack_input"
    /\ request \in [slave_id : {1}, function_code : {1, 3}, addresses : PackAddrLists]
    /\ cost_params \in CostSample
    /\ max_pdu_chars \in {2, 253}
    /\ max_blocks = 0
    /\ blocks_in = <<>>
    /\ blocks = <<>>
    /\ max_pdus = 0
    /\ pdus = <<>>
    /\ result = MB_SUCCESS
    /\ OptIdle /\ CodecIdle /\ MasterIdle

PackFold ==
    /\ pc = "pack_input"
    /\ max_blocks' = Len(request.addresses)
    /\ \E heap_ok \in BOOLEAN :
       \E r \in {mb_addresses_to_blocks(Ptr(request.addresses), Len(request.addresses),
                                         request.slave_id, request.function_code,
                                         Len(request.addresses), heap_ok)} :
          /\ blocks_in' = r.blocks
          /\ result' = r.result
          /\ pc' = IF r.result = MB_SUCCESS THEN "pack_folded" ELSE "pack_failed"
    /\ UNCHANGED <<request, cost_params, max_pdu_chars, blocks, max_pdus, pdus>>
    /\ UNCHANGED <<optVars, codecVars, masterVars>>

PackMerge ==
    /\ pc = "pack_folded"
    /\ \E out \in mb_merge_block_array(blocks_in, cost_params) : blocks' = out
    /\ pc' = "pack_merged"
    /\ UNCHANGED <<request, max_blocks, cost_params, max_pdu_chars, blocks_in, max_pdus, pdus>>
    /\ UNCHANGED <<result, optVars, codecVars, masterVars>>

PackPack ==
    /\ pc = "pack_merged"
    /\ \E capacity \in {1, Len(blocks)} :
       \E r \in mb_ffd_pack(blocks, max_pdu_chars, capacity) :
          /\ max_pdus' = capacity
          /\ pdus' = r.pdus
          /\ result' = r.result
    /\ pc' = "packed"
    /\ UNCHANGED <<request, max_blocks, cost_params, max_pdu_chars, blocks_in, blocks>>
    /\ UNCHANGED <<optVars, codecVars, masterVars>>

PackNext == PackFold \/ PackMerge \/ PackPack

SpecPack == PackInit /\ [][PackNext]_vars

\* data bytes of quantity units: 2 per register, one bit per coil
UnitBytes(fc, quantity) ==
    IF fc \in {1, 2} THEN (quantity + 7) \div 8 ELSE 2 * quantity

\* C2: every bin mb_ffd_pack produces from the merger's output has quantity
\* <= max_quantity(function code) and data size <= max_pdu_chars.
C2_BinsWithinLimits ==
    (pc = "packed" /\ result = MB_SUCCESS) =>
        \A i \in DOMAIN pdus :
            /\ pdus[i].quantity <= mb_fc_get_max_quantity(pdus[i].function_code)
            /\ UnitBytes(pdus[i].function_code, pdus[i].quantity) <= max_pdu_chars

\* a bin of first-fit-decreasing packing as the span [start, end) it covers
SpanBin(block) ==
    [slave_id |-> block.slave_id, function_code |-> block.function_code,
     start |-> block.start_address, end |-> block.start_address + block.quantity]

\* the bin grown to cover the block as well
SpanWith(bin, block) ==
    [bin EXCEPT !.start = Min2(bin.start, block.start_address),
                !.end = Max2(bin.end, block.start_address + block.quantity)]

\* the bin accepts the block: same slave and function code, and the combined
\* span within max_quantity(fc) units and max_pdu_chars data bytes
SpanAccepts(bin, block, maxchars) ==
    LET span == SpanWith(bin, block).end - SpanWith(bin, block).start
    IN /\ bin.slave_id = block.slave_id
       /\ bin.function_code = block.function_code
       /\ span <= mb_fc_get_max_quantity(block.function_code)
       /\ UnitBytes(block.function_code, span) <= maxchars

\* first fit of the blocks from index i on, in the order given: the bins, or
\* failed when a bin beyond the capacity would be needed
RECURSIVE SpanFirstFit(_, _, _, _, _)
SpanFirstFit(ordered, i, bins, maxchars, capacity) ==
    LET accepting == {j \in DOMAIN bins : SpanAccepts(bins[j], ordered[i], maxchars)}
        lowest == CHOOSE j \in accepting : \A k \in accepting : j <= k
    IN IF i > Len(ordered) THEN [failed |-> FALSE, bins |-> bins]
       ELSE IF accepting # {}
            THEN SpanFirstFit(ordered, i + 1,
                              [bins EXCEPT ![lowest] = SpanWith(bins[lowest], ordered[i])],
                              maxchars, capacity)
       ELSE IF Len(bins) >= capacity THEN [failed |-> TRUE, bins |-> <<>>]
       ELSE SpanFirstFit(ordered, i + 1, Append(bins, SpanBin(ordered[i])),
                         maxchars, capacity)

\* the arrangements of blks in non-increasing order of quantity
QuantityDescending(blks) ==
    {[k \in DOMAIN blks |-> blks[p[k]]] :
        p \in {q \in [DOMAIN blks -> DOMAIN blks] :
                  /\ \A a, b \in DOMAIN blks : a # b => q[a] # q[b]
                  /\ \A a, b \in DOMAIN blks :
                        a < b => blks[q[a]].quantity >= blks[q[b]].quantity}}

\* C22: unless its working copy cannot be allocated, mb_ffd_pack returns the
\* bins of first-fit packing of the blocks taken in some non-increasing order
\* of quantity -- each block goes into the lowest-indexed bin of its slave and
\* function code whose combined span stays within max_quantity(fc) and
\* max_pdu_chars, a new bin is opened only when there is none -- and fails
\* with MB_ERROR_TOO_MANY_BLOCKS when that needs more than max_pdus bins.
C22_FirstFitDecreasing ==
    (pc = "packed" /\ result # MB_ERROR_OUT_OF_MEMORY) =>
        \E ordered \in QuantityDescending(blocks) :
            \E ref \in {SpanFirstFit(ordered, 1, <<>>, max_pdu_chars, max_pdus)} :
                IF ref.failed THEN result = MB_ERROR_TOO_MANY_BLOCKS
                ELSE /\ result = MB_SUCCESS
                     /\ Len(pdus) = Len(ref.bins)
                     /\ \A j \in DOMAIN pdus :
                           /\ pdus[j].slave_id = ref.bins[j].slave_id
                           /\ pdus[j].function_code = ref.bins[j].function_code
                           /\ pdus[j].start_address = ref.bins[j].start
                           /\ pdus[j].quantity = ref.bins[j].end - ref.bins[j].start

(***************************************************************************)
(* SpecOpt: one call of mb_optimize_request                                *)
(***************************************************************************)
Modes == {"RTU", "ASCII", "TCP"}

OptAddrSample == {100, 101, 115}

\* what the memory behind the forged pointer can hold
WildSample == {0, 1, 100, 3000}

\* low bytes the caller's address-array pointer can have
PtrLowSample == {1, 16}

\* the two address lists with two separate runs of three
TwoRunRequest(second) ==
    [slave_id |-> 1, function_code |-> 3,
     addresses |-> <<100, 101, 102, second, second + 1, second + 2>>]

OptRequests ==
    [slave_id : {0, 1}, function_code : {1, 3},
     addresses : SeqsUpTo(OptAddrSample, MaxAddrCount)]
        \cup {TwoRunRequest(115), TwoRunRequest(150),
              [slave_id |-> 1, function_code |-> 3, addresses |-> Range(100, 7)]}

OptEnv(heap_fail, wild_ok, ptr_low, wild) ==
    [heap_fail |-> heap_fail, wild_ok |-> wild_ok, ptr_low |-> ptr_low, wild |-> wild,
     uninit_cost |-> NoCost, static_memory |-> FALSE]

\* the same environment around a library built with MB_USE_STATIC_MEMORY
StaticBuild(env) == [env EXCEPT !.static_memory = TRUE]

\* the environments of one call with function code fc
OptEnvs(fc) ==
    {OptEnv(h, TRUE, 1, [i \in 1..fc |-> 0]) : h \in {"blocks", "sorted", "pdus"}}
        \cup {OptEnv("none", FALSE, 1, [i \in 1..fc |-> 0])}
        \cup {OptEnv("none", TRUE, b, w) : b \in PtrLowSample, w \in [1..fc -> WildSample]}
        \cup {StaticBuild(OptEnv(h, TRUE, 1, w)) :
                  h \in {"none", "sorted"}, w \in [1..fc -> WildSample]}

\* the default configuration of each mode, as it is and with the inter-frame
\* gap set by the caller
OptConfigs ==
    UNION {{[mb_config_default(m) EXCEPT !.gap_chars = g] :
                g \in {mb_config_default(m).gap_chars, 10}} : m \in Modes}

OptInit ==
    /\ pc = "opt_input"
    /\ request \in OptRequests
    /\ config \in OptConfigs
    /\ op \in [kind : {"optimize"}, max_plans : {0, 1, 16}, static_memory : BOOLEAN]
    /\ plans = <<>>
    /\ heap_log = <<>>
    /\ result = MB_SUCCESS
    /\ max_blocks = 0
    /\ cost_params = NoCost
    /\ max_pdu_chars = 0
    /\ blocks_in = <<>>
    /\ blocks = <<>>
    /\ max_pdus = 0
    /\ pdus = <<>>
    /\ CodecIdle
    /\ plan_index = 0
    /\ data_buffer = <<>>
    /\ data_index = 0
    /\ temp_buffer = <<>>
    /\ stats = NoStats
    /\ sent_log = <<>>
    /\ recv_log = <<>>
    /\ pools = NoPools

\* one call; cost_params keeps the cost parameters of a call that ran through
\* its merge step to the end
OptStep ==
    /\ pc = "opt_input"
    /\ \E env \in {e \in OptEnvs(request.function_code) :
                        e.static_memory = op.static_memory} :
       \E o \in mb_optimize_request(request, config, op.max_plans, env) :
          /\ plans' = o.plans
          /\ heap_log' = o.heap
          /\ result' = o.result
          /\ pc' = IF o.crashed THEN "crashed" ELSE "optimized"
          /\ cost_params' = IF ~o.crashed /\ o.result = MB_SUCCESS /\ request.addresses # <<>>
                             THEN OptCostParams(request, config, env)
                             ELSE NoCost
    /\ UNCHANGED <<request, max_blocks, max_pdu_chars, blocks_in, blocks, max_pdus, pdus,
                   config, codecVars, masterVars>>

OptNext == OptStep

SpecOpt == OptInit /\ [][OptNext]_vars

\* C1: for fc=3 in RTU mode with the default configuration, the address lists
\* [100,101,102,115,116,117] and [100,101,102,150,151,152] each come out of
\* mb_optimize_request as exactly two plans, (100,3) and (second run,3);
\* only a failed allocation excuses the call.
C1_TwoRunsTwoPlans ==
    \A second \in {115, 150} :
        (/\ pc \in {"optimized", "crashed"}
         /\ request = TwoRunRequest(second)
         /\ config = mb_config_default("RTU")
         /\ op.max_plans = 16
         /\ result \notin {MB_ERROR_NO_MEMORY, MB_ERROR_OUT_OF_MEMORY})
        => /\ pc = "optimized"
           /\ result = MB_SUCCESS
           /\ [i \in DOMAIN plans |-> <<plans[i].start_address, plans[i].quantity>>]
                  = << <<100, 3>>, <<second, 3>> >>

\* C20: the round-trip overhead of the cost parameters mb_optimize_request
\* merges with is req_fixed(fc) + resp_fixed(fc) + latency_chars + gap, where
\* gap is config.gap_chars in RTU and ASCII mode and 0 in TCP mode.
C20_OverheadUsesConfiguredGap ==
    (/\ pc = "optimized"
     /\ result = MB_SUCCESS
     /\ request.addresses # <<>>)
        => cost_params.req_fixed_chars + cost_params.resp_fixed_chars
               + cost_params.latency_chars + cost_params.gap_chars
           = mb_fc_get_policy(request.function_code).req_fixed_chars
               + mb_fc_get_policy(request.function_code).resp_fixed_chars
               + config.latency_chars
               + (IF config.mode \in {"RTU", "ASCII"} THEN config.gap_chars ELSE 0)

\* C19: whenever mb_optimize_request succeeds, it has written at most as many
\* plans as the request has addresses, so address_count - plan_count is not
\* negative.
C19_PlansWithinAddresses ==
    (pc = "optimized" /\ result = MB_SUCCESS) => Len(plans) <= Len(request.addresses)

\* every block a malloc of the log returned is freed later in the log, and
\* every free of the log releases a block that an earlier malloc returned and
\* that no other free of the log releases
FreedExactlyOnce(log) ==
    /\ \A i \in DOMAIN log :
          (log[i].op = "malloc" /\ log[i].ok)
              => \E j \in DOMAIN log : j > i /\ log[j] = Free(log[i].what)
    /\ \A j \in DOMAIN log :
          log[j].op = "free"
              => /\ \E i \in DOMAIN log : i < j /\ log[i] = Malloc(log[j].what)
                 /\ \A k \in DOMAIN log : log[k] = log[j] => k = j

\* C23: when mb_optimize_request of the heap build returns, with success or
\* with any error, every array that it or its folding and packing helpers
\* allocated has been freed exactly once.
C23_HeapReleasedOnReturn ==
    (pc = "optimized" /\ ~op.static_memory) => FreedExactlyOnce(heap_log)

\* the heap build returned MB_ERROR_TOO_MANY_BLOCKS from the folding step,
\* after the mallocs of blocks and of the sorted copy and a free of each
C23_TooManyBlocksReleased ==
    /\ pc = "optimized"
    /\ ~op.static_memory
    /\ result = MB_ERROR_TOO_MANY_BLOCKS
    /\ heap_log = <<Malloc("blocks"), Malloc("sorted_addresses"),
                    Free("sorted_addresses"), Free("blocks")>>

\* C24: whenever mb_optimize_request succeeds, every requested address lies in
\* the span [start_address, start_address + quantity) of one of its plans, and
\* every plan has quantity >= 1 and ends inside the 16-bit address space.
C24_PlansCoverRequest ==
    (pc = "optimized" /\ result = MB_SUCCESS) =>
        /\ \A i \in DOMAIN request.addresses :
              \E k \in DOMAIN plans :
                  /\ plans[k].start_address <= request.addresses[i]
                  /\ request.addresses[i] < plans[k].start_address + plans[k].quantity
        /\ \A k \in DOMAIN plans :
              /\ plans[k].quantity >= 1
              /\ plans[k].start_address + plans[k].quantity <= AddrSpace

\* C25: every plan of a successful mb_optimize_request carries the slave id
\* and the function code of the request.
C25_PlansCarryRequestIdentity ==
    (pc = "optimized" /\ result = MB_SUCCESS) =>
        \A k \in DOMAIN plans :
            /\ plans[k].slave_id = request.slave_id
            /\ plans[k].function_code = request.function_code

(***************************************************************************)
(* SpecCodec: a frame is built by one variant's encoder and handed to the  *)
(* same variant's decoder                                                  *)
(***************************************************************************)
\* longest PDU drawn byte by byte
MaxPduLen == 2

\* 0x00, ':', 0x80, 0xFF
ByteSample == {0, 58, 128, 255}

LongPdu(n) == [i \in 1..n |-> (i * 37) % 256]

PduSample == SeqsUpTo(ByteSample, MaxPduLen) \cup {LongPdu(252), LongPdu(253)}

CodecInputs ==
    [variant : {"RTU", "ASCII"}, transaction_id : {0}, slave_id : {0, 1, 247, 255},
     fc : {3, 131}, pdu : PduSample, buffer_size : {260, 520}]
        \cup [variant : {"TCP"}, transaction_id : {0, 1, 43981, 65535},
              slave_id : {0, 1, 247, 255}, fc : {3, 131}, pdu : PduSample,
              buffer_size : {260, 520}]

CodecInit ==
    /\ pc = "codec_input"
    /\ codec_in \in CodecInputs
    /\ frame = <<>>
    /\ decoded = NoDecoded
    /\ result = MB_SUCCESS
    /\ PipeIdle /\ OptIdle /\ MasterIdle

CodecBuild ==
    /\ pc = "codec_input"
    /\ \E b \in {IF codec_in.variant = "RTU"
                 THEN mb_rtu_build_frame(codec_in.slave_id, codec_in.fc, codec_in.pdu,
                                         codec_in.buffer_size)
                 ELSE IF codec_in.variant = "ASCII"
                 THEN mb_ascii_build_frame(codec_in.slave_id, codec_in.fc, codec_in.pdu,
                                           codec_in.buffer_size)
                 ELSE mb_tcp_build_frame(codec_in.transaction_id, codec_in.slave_id,
                                         codec_in.fc, codec_in.pdu,
                                         codec_in.buffer_size)} :
          /\ frame' = b.frame
          /\ result' = b.result
          /\ pc' = IF b.result > 0 THEN "encoded" ELSE "encode_failed"
    /\ UNCHANGED <<codec_in, decoded, pipeVars, optVars, masterVars>>

CodecParse ==
    /\ pc = "encoded"
    /\ decoded' = IF codec_in.variant = "RTU" THEN mb_rtu_parse_frame(frame)
                  ELSE IF codec_in.variant = "ASCII" THEN mb_ascii_parse_frame(frame)
                  ELSE mb_tcp_parse_frame(frame)
    /\ pc' = "decoded"
    /\ UNCHANGED <<codec_in, frame, result, pipeVars, optVars, masterVars>>

CodecNext == CodecBuild \/ CodecParse

SpecCodec == CodecInit /\ [][CodecNext]_vars

\* C6: for RTU, ASCII and TCP, decoding the frame the variant's encoder
\* produced succeeds and returns the slave id, function code and PDU bytes that
\* were encoded, and for TCP also the transaction id (PDU lengths 0 .. 253).
C6_DecodeInvertsEncode ==
    pc = "decoded" =>
        /\ decoded.result = MB_SUCCESS
        /\ decoded.slave_id = codec_in.slave_id
        /\ decoded.fc = codec_in.fc
        /\ decoded.pdu = codec_in.pdu
        /\ codec_in.variant = "TCP" => decoded.transaction_id = codec_in.transaction_id

\* an ASCII frame carrying the longest PDU has been decoded
C6_LongAsciiFrameDecoded ==
    /\ pc = "decoded"
    /\ codec_in.variant = "ASCII"
    /\ Len(codec_in.pdu) = 253
    /\ Len(frame) = 515
    /\ decoded.pdu = codec_in.pdu

(***************************************************************************)
(* Spec: one master, from mb_master_init to the return of one call of its  *)
(* API.  The transport callbacks and the slave behind them are the         *)
(* environment.                                                            *)
(***************************************************************************)
\* plans[16] and the max_plans handed to the optimizer
MaxPlans == 16

\* sizeof(frame_buffer), sizeof(response_buffer)
FrameBufferSize == 260

\* longest address list of a read request
MaxReqAddrs == 3

\* a uint32_t as its two 16-bit halves
U32(hi, lo) == [hi |-> hi, lo |-> lo]

\* x + d in uint32_t arithmetic, for an int d of small magnitude
U32Add(x, d) ==
    U32((x.hi + ((x.lo + d) \div 65536)) % 65536, (x.lo + d) % 65536)

\* what the slave holds: a register and a coil per address
SlaveReg(addr) == (addr * 7 + 3) % 65536

SlaveBit(addr) == addr % 3 = 0

SlaveValue(fc, addr) ==
    IF fc \in {1, 2} THEN (IF SlaveBit(addr) THEN 1 ELSE 0) ELSE SlaveReg(addr)

RECURSIVE PackBits(_, _, _)
\* the byte of up to eight coils from addr on, least significant bit first
PackBits(addr, n, weight) ==
    IF n = 0 THEN 0
    ELSE (IF SlaveBit(addr % AddrSpace) THEN weight ELSE 0)
            + PackBits(addr + 1, n - 1, 2 * weight)

\* the reply [fc, pdu] of a slave to a request with function code fc and the
\* two request words a, b
SlaveReply(fc, a, b) ==
    IF fc \in {1, 2} /\ b \in 1..2000
    THEN [fc |-> fc,
          pdu |-> <<(b + 7) \div 8>>
                    \o [k \in 1..((b + 7) \div 8) |->
                           PackBits(a + 8 * (k - 1), Min2(8, b - 8 * (k - 1)), 1)]]
    ELSE IF fc \in {3, 4} /\ b \in 1..125
    THEN [fc |-> fc,
          pdu |-> <<2 * b>>
                    \o [k \in 1..(2 * b) |->
                           LET v == SlaveReg((a + (k - 1) \div 2) % AddrSpace)
                           IN IF k % 2 = 1 THEN v \div 256 ELSE v % 256]]
    ELSE IF fc \in {5, 6, 16}
    THEN [fc |-> fc, pdu |-> <<a \div 256, a % 256, b \div 256, b % 256>>]
    ELSE [fc |-> U8(fc + 128), pdu |-> <<1>>]

\* a frame damaged on the line so that its own mode detects it: the CRC of
\* RTU, the LRC of ASCII, the protocol identifier of MBAP
Damaged(frm, mode) ==
    IF mode = "RTU" THEN [frm EXCEPT ![Len(frm)] = (@ + 1) % 256]
    ELSE IF mode = "ASCII"
         THEN [frm EXCEPT ![Len(frm) - 2] = IF @ = HexChar(0) THEN HexChar(1) ELSE HexChar(0)]
    ELSE [frm EXCEPT ![4] = 1]

\* a function code of the same family as fc
SiblingFc(fc) ==
    IF fc = 1 THEN 2 ELSE IF fc = 2 THEN 1 ELSE IF fc = 3 THEN 4 ELSE IF fc = 4 THEN 3
    ELSE IF fc = 16 THEN 15 ELSE 16

ResponseKinds ==
    {"reply", "exception", "bare_exception", "wrong_slave", "damaged", "short",
     "sibling_fc"}

\* the frame a recv can deliver for the request (slave_id, fc, a, b)
ResponseFrame(kind, slave_id, fc, a, b, mode) ==
    LET reply == SlaveReply(fc, a, b)
        Frame(s, f, pdu) == mb_build_frame(s, f, pdu, mode, 2 * FrameBufferSize).frame
    IN IF kind = "reply" THEN Frame(slave_id, reply.fc, reply.pdu)
       ELSE IF kind = "exception" THEN Frame(slave_id, U8(fc + 128), <<2>>)
       ELSE IF kind = "bare_exception" THEN Frame(slave_id, U8(fc + 128), <<>>)
       ELSE IF kind = "wrong_slave" THEN Frame(U8(slave_id + 1), reply.fc, reply.pdu)
       ELSE IF kind = "damaged"
            THEN Strict(LAMBDA f : Damaged(f, mode), Frame(slave_id, reply.fc, reply.pdu))
       ELSE IF kind = "short" THEN Frame(slave_id, fc, <<0>>)
       ELSE Frame(slave_id, SiblingFc(fc), reply.pdu)

\* what one call of transport.recv gives: the return value and the bytes put
\* into response_buffer, at most max_len of them
RecvOutcomes(slave_id, fc, a, b, mode) ==
    {[rc |-> -1, data |-> <<>>], [rc |-> 0, data |-> <<>>]}
        \cup {[rc |-> 0,
               data |-> Strict(LAMBDA f : SubSeq(f, 1, Min2(Len(f), FrameBufferSize)),
                               ResponseFrame(kind, slave_id, fc, a, b, mode))] :
                 kind \in ResponseKinds}

\* a request PDU whose two words are swapped
ReadRequestPduQuantityFirst(start_address, quantity) ==
    <<(quantity \div 256) % 256, quantity % 256,
      (start_address \div 256) % 256, start_address % 256>>

\* pdu_data of a read request: start address, then quantity, high byte first
ReadRequestPdu(start_address, quantity) ==
    <<(start_address \div 256) % 256, start_address % 256,
      (quantity \div 256) % 256, quantity % 256>>

\* pdu_data of mb_master_write_multiple_registers
WriteMultiplePdu(start_addr, quantity, values) ==
    ReadRequestPdu(start_addr, quantity) \o <<U8(quantity * 2)>>
        \o [k \in 1..(2 * quantity) |->
               LET v == values[(k + 1) \div 2]
               IN IF k % 2 = 1 THEN (v \div 256) % 256 ELSE v % 256]

\* the request in flight: slave, function code and the two words of its PDU
Pending ==
    IF op.kind = "read_optimized"
    THEN LET plan == plans[plan_index + 1]
         IN [slave_id |-> plan.slave_id, fc |-> plan.function_code,
             a |-> plan.start_address, b |-> plan.quantity]
    ELSE IF op.kind = "read_single"
    THEN [slave_id |-> op.slave_id, fc |-> op.fc, a |-> op.start_addr, b |-> op.quantity]
    ELSE IF op.kind = "write_single_coil"
    THEN [slave_id |-> op.slave_id, fc |-> 5, a |-> op.addr,
          b |-> IF op.value THEN 65280 ELSE 0]
    ELSE IF op.kind = "write_single_register"
    THEN [slave_id |-> op.slave_id, fc |-> 6, a |-> op.addr, b |-> op.value]
    ELSE [slave_id |-> op.slave_id, fc |-> 16, a |-> op.start_addr, b |-> op.quantity]

\* master->stats.total_requests++ (the counters of one call stay far below
\* the width of uint32_t)
CountRequest(st) == [st EXCEPT !.total_requests = @ + 1]

\* the statistics update after a completed round trip
CountRoundTrip(st, frame_length, received) ==
    [st EXCEPT !.total_requests = (@ + 1) + 1,
               !.total_chars_sent = @ + frame_length,
               !.total_chars_recv = @ + received]

\* the statistics update after the plan loop; the int difference is added to
\* a uint32_t
CountOptimized(st, address_count, plan_count) ==
    [st EXCEPT !.optimized_requests = @ + 1,
               !.blocks_merged = U32Add(@, address_count - plan_count)]

\* return res with the statistics st
Return(res, st) ==
    /\ pc' = "done"
    /\ result' = res
    /\ stats' = st

\* an error return after the request went out
Fail(err) ==
    /\ Return(err, CountRequest(stats))
    /\ UNCHANGED <<frame, plan_index, data_buffer, data_index, temp_buffer>>

\* the plan loop of mb_master_read_optimized from iteration i up to the call
\* of transport.send, or past its end
PlanLoop(pl, i, st, address_count) ==
    /\ plan_index' = i
    /\ IF i >= Len(pl)
       THEN /\ frame' = frame
            /\ Return(MB_SUCCESS, CountOptimized(st, address_count, Len(pl)))
       ELSE \E built \in {mb_build_frame(pl[i + 1].slave_id, pl[i + 1].function_code,
                                         ReadRequestPdu(pl[i + 1].start_address,
                                                        pl[i + 1].quantity),
                                         config.mode, FrameBufferSize)} :
               /\ frame' = built.frame
               /\ IF built.result # MB_SUCCESS
                  THEN Return(built.result, CountRequest(st))
                  ELSE IF config.send_null
                  THEN Return(MB_ERROR_TRANSPORT, st)
                  ELSE /\ pc' = "send"
                       /\ result' = result
                       /\ stats' = st

\* a single-request call from mb_build_frame up to the call of transport.send
SingleStart(slave_id, fc, pdu) ==
    \E built \in {mb_build_frame(slave_id, fc, pdu, config.mode, FrameBufferSize)} :
       /\ frame' = built.frame
       /\ IF built.result # MB_SUCCESS
          THEN Return(built.result, stats)
          ELSE IF config.send_null
          THEN Return(MB_ERROR_TRANSPORT, stats)
          ELSE /\ pc' = "send"
               /\ result' = result
               /\ stats' = stats

\* temp_buffer[j] as the copy loop reads it; a byte never written holds
\* whatever the stack held
TempWord(bytes, j, big_endian, garbage) ==
    LET ByteAt(k) == IF k <= Len(bytes) THEN bytes[k] ELSE garbage
    IN WordOf(ByteAt(2 * j + 1), ByteAt(2 * j + 2), big_endian)

\* the copy loop: for (j = 0; j < quantity && data_index < buffer_size; j++)
CopyPlanData(buffer, index, bytes, quantity, buffer_size, big_endian, garbage) ==
    LET n == Min2(quantity, Max2(buffer_size - index, 0))
    IN [buffer |-> [k \in 1..Len(buffer) |->
                       IF index < k /\ k <= index + n
                       THEN TempWord(bytes, k - index - 1, big_endian, garbage)
                       ELSE buffer[k]],
        index |-> index + n]

BytesToWords(bytes, big_endian) ==
    [i \in 1..(Len(bytes) \div 2) |-> WordOf(bytes[2 * i - 1], bytes[2 * i], big_endian)]

\* what the memory behind the forged pointer holds during a master call
MasterWild == {0, 2, 300}

\* what a stack byte that was never written can hold
GarbageSample == {0, 255}

MasterAddrLists == {Range(100, n) : n \in 0..MaxReqAddrs} \cup {<<100, 102>>}

MasterRequests ==
    [slave_id : {1}, function_code : {1, 3}, addresses : MasterAddrLists]
        \cup {[slave_id |-> 0, function_code |-> 3, addresses |-> <<100>>]}

\* uint16_t temp_buffer[256] of mb_master_read_optimized
TempBufferWords == 256

\* the caller's buffer_size: around the address count, or a buffer that holds
\* more words than temp_buffer
BufferSizes(req) ==
    {n \in {Len(req.addresses) - 1, Len(req.addresses), Len(req.addresses) + 1} : n >= 0}
        \cup {TempBufferWords + 44}

MasterEnvs(fc) ==
    {OptEnv(h, TRUE, 16, [i \in 1..fc |-> 0]) : h \in {"blocks", "sorted", "pdus"}}
        \cup {OptEnv("none", FALSE, 16, [i \in 1..fc |-> 0])}
        \cup {OptEnv("none", TRUE, 16, w) : w \in [1..fc -> MasterWild]}

\* the environments of a library built with MB_USE_STATIC_MEMORY
MasterStaticEnvs(fc) ==
    {StaticBuild(OptEnv("sorted", TRUE, 16, [i \in 1..fc |-> 0])),
     StaticBuild(OptEnv("none", FALSE, 16, [i \in 1..fc |-> 0]))}
        \cup {StaticBuild(OptEnv("none", TRUE, 16, w)) : w \in [1..fc -> MasterWild]}

\* the configurations a master is initialised with: the defaults of a mode
\* with the application's callbacks, or with one of them left NULL, or with a
\* mode that is none of the three enumerators (mb_master_init copies the
\* configuration without looking at it)
MasterConfigs ==
    {[mb_config_default(m) EXCEPT !.send_null = FALSE, !.recv_null = FALSE] :
        m \in Modes \cup {"UNSUPPORTED"}}
        \cup {[mb_config_default("RTU") EXCEPT !.recv_null = FALSE],
              [mb_config_default("RTU") EXCEPT !.send_null = FALSE]}

\* the state after mb_master_init
Init ==
    /\ pc = "ready"
    /\ config \in MasterConfigs
    /\ op \in [kind : {"none"}, big_endian : BOOLEAN]
    /\ op.big_endian => (config.mode = "RTU" /\ ~config.send_null /\ ~config.recv_null)
    /\ stats = NoStats
    /\ result = MB_SUCCESS
    /\ request = NoRequest
    /\ plans = <<>>
    /\ heap_log = <<>>
    /\ plan_index = 0
    /\ data_buffer = <<>>
    /\ data_index = 0
    /\ temp_buffer = <<>>
    /\ sent_log = <<>>
    /\ recv_log = <<>>
    /\ pools = NoPools
    /\ max_blocks = 0
    /\ cost_params = NoCost
    /\ max_pdu_chars = 0
    /\ blocks_in = <<>>
    /\ blocks = <<>>
    /\ max_pdus = 0
    /\ pdus = <<>>
    /\ CodecIdle

masterRest ==
    <<max_blocks, cost_params, max_pdu_chars, blocks_in, blocks, max_pdus, pdus,
      config, heap_log, codec_in, decoded, pools>>

\* mb_master_read_optimized up to the first call of transport.send
ReadOptimizedCall ==
    /\ pc = "ready"
    /\ \E req \in MasterRequests :
       \E buffer_size \in BufferSizes(req) :
       \E static_memory \in BOOLEAN :
          /\ request' = req
          /\ op' = [kind |-> "read_optimized", buffer_size |-> buffer_size,
                    big_endian |-> op.big_endian, static_memory |-> static_memory]
          /\ data_buffer' = [i \in 1..buffer_size |-> 0]
          /\ data_index' = 0
          /\ temp_buffer' = <<>>
          /\ IF buffer_size < Len(req.addresses)
             THEN /\ Return(MB_ERROR_BUFFER_TOO_SMALL, stats)
                  /\ UNCHANGED <<plans, heap_log, plan_index, frame>>
             ELSE \E env \in IF static_memory THEN MasterStaticEnvs(req.function_code)
                               ELSE MasterEnvs(req.function_code) :
                  \E o \in mb_optimize_request(req, config, MaxPlans, env) :
                     /\ plans' = o.plans
                     /\ heap_log' = o.heap
                     /\ IF o.crashed
                        THEN /\ pc' = "crashed"
                             /\ UNCHANGED <<result, stats, plan_index, frame>>
                        ELSE IF o.result # MB_SUCCESS
                        THEN /\ Return(o.result, stats)
                             /\ UNCHANGED <<plan_index, frame>>
                        ELSE PlanLoop(o.plans, 0, stats, Len(req.addresses))
    /\ UNCHANGED <<sent_log, recv_log, max_blocks, cost_params, max_pdu_chars, blocks_in,
                   blocks, max_pdus, pdus, config, codec_in, decoded, pools>>

\* mb_master_read_single up to the call of transport.send
ReadSingleCall ==
    /\ pc = "ready"
    /\ \E fc \in {1, 3, 5}, quantity \in {0, 2, 9} :
          /\ op' = [kind |-> "read_single", slave_id |-> 1, fc |-> fc, start_addr |-> 100,
                    quantity |-> quantity, big_endian |-> op.big_endian]
          /\ data_buffer' = [i \in 1..quantity |-> 0]
          /\ IF fc \notin {1, 2, 3, 4}
             THEN Return(MB_ERROR_INVALID_FC, stats) /\ frame' = frame
             ELSE SingleStart(1, fc, ReadRequestPdu(100, quantity))
    /\ UNCHANGED <<request, plans, plan_index, data_index, temp_buffer, sent_log, recv_log,
                   masterRest>>

\* mb_master_write_single_coil up to the call of transport.send
WriteSingleCoilCall ==
    /\ pc = "ready"
    /\ \E value \in BOOLEAN :
          /\ op' = [kind |-> "write_single_coil", slave_id |-> 1, addr |-> 100,
                    value |-> value, big_endian |-> op.big_endian]
          /\ SingleStart(1, 5, <<(100 \div 256) % 256, 100 % 256,
                                 IF value THEN 255 ELSE 0, 0>>)
    /\ UNCHANGED <<request, plans, plan_index, data_buffer, data_index, temp_buffer,
                   sent_log, recv_log, masterRest>>

\* mb_master_write_single_register up to the call of transport.send
WriteSingleRegisterCall ==
    /\ pc = "ready"
    /\ \E value \in {1, 4660} :
          /\ op' = [kind |-> "write_single_register", slave_id |-> 1, addr |-> 100,
                    value |-> value, big_endian |-> op.big_endian]
          /\ SingleStart(1, 6, ReadRequestPdu(100, value))
    /\ UNCHANGED <<request, plans, plan_index, data_buffer, data_index, temp_buffer,
                   sent_log, recv_log, masterRest>>

\* mb_master_write_multiple_registers up to the call of transport.send
WriteMultipleRegistersCall ==
    /\ pc = "ready"
    /\ \E quantity \in {0, 2, 60, 61, 123, 124}, values_null \in BOOLEAN :
          /\ values_null => quantity = 2
          /\ op' = [kind |-> "write_multiple_registers", slave_id |-> 1,
                    start_addr |-> 100, quantity |-> quantity,
                    values |-> [i \in 1..quantity |-> 4660 + i],
                    values_null |-> values_null, big_endian |-> op.big_endian]
          /\ IF values_null
             THEN Return(MB_ERROR_INVALID_PARAM, stats) /\ frame' = frame
             ELSE IF quantity = 0 \/ quantity > 123
             THEN Return(MB_ERROR_INVALID_QUANTITY, stats) /\ frame' = frame
             ELSE SingleStart(1, 16, WriteMultiplePdu(100, quantity,
                                                      [i \in 1..quantity |-> 4660 + i]))
    /\ UNCHANGED <<request, plans, plan_index, data_buffer, data_index, temp_buffer,
                   sent_log, recv_log, masterRest>>

\* transport.send is called with the frame and returns; the caller goes on to
\* the call of transport.recv
TransportSend ==
    /\ pc = "send"
    /\ \E sent \in {-1, Len(frame)} :
          /\ sent_log' = Append(sent_log, [data |-> frame, rc |-> sent])
          /\ IF sent < 0
             THEN Return(MB_ERROR_TRANSPORT, CountRequest(stats))
             ELSE IF config.recv_null
             THEN Return(MB_ERROR_TRANSPORT, stats)
             ELSE /\ pc' = "recv"
                  /\ UNCHANGED <<result, stats>>
    /\ UNCHANGED <<request, op, plans, frame, plan_index, data_buffer, data_index,
                   temp_buffer, recv_log, masterRest>>

\* the response parser wrote tens of kilobytes past the buffer it was given:
\* the caller's stack and whatever lies behind it are overwritten
Overrun ==
    /\ pc' = "crashed"
    /\ UNCHANGED <<result, stats, frame, plan_index, data_buffer, data_index, temp_buffer>>

\* mb_master_read_optimized from a frame of the right slave to the next call
\* of transport.send or to the return
ReadOptimizedResponse(p, received, garbage) ==
    \E r \in {mb_parse_read_response(p.fc, p.pdu, plans[plan_index + 1].quantity,
                                     temp_buffer, op.big_endian)} :
       IF r.result # MB_SUCCESS THEN Fail(r.result)
       ELSE IF r.overrun THEN Overrun
       ELSE \E copied \in {CopyPlanData(data_buffer, data_index, r.buffer,
                                        plans[plan_index + 1].quantity, op.buffer_size,
                                        op.big_endian, garbage)} :
               /\ temp_buffer' = r.buffer
               /\ data_buffer' = copied.buffer
               /\ data_index' = copied.index
               /\ PlanLoop(plans, plan_index + 1,
                           CountRoundTrip(stats, Len(frame), received),
                           Len(request.addresses))

\* mb_master_read_single from a frame of the right slave to the return
ReadSingleResponse(p, received) ==
    \E r \in {mb_parse_read_response(p.fc, p.pdu, op.quantity,
                                     WordsToBytes(data_buffer, op.big_endian),
                                     op.big_endian)} :
       IF r.result # MB_SUCCESS THEN Fail(r.result)
       ELSE IF r.overrun THEN Overrun
       ELSE /\ data_buffer' = BytesToWords(r.buffer, op.big_endian)
            /\ Return(MB_SUCCESS, CountRoundTrip(stats, Len(frame), received))
            /\ UNCHANGED <<frame, plan_index, data_index, temp_buffer>>

\* what the write calls hand to mb_parse_write_response as expected_data: the
\* address of a bool, of a uint16_t, or NULL.  The field of the other type is
\* read only when a single-write call is answered with the other single-write
\* function code, which no sampled response does.
ExpectedData ==
    IF op.kind = "write_single_coil"
    THEN [null |-> FALSE, coil |-> op.value, word |-> IF op.value THEN 1 ELSE 0]
    ELSE IF op.kind = "write_single_register"
    THEN [null |-> FALSE, coil |-> op.value % 256 # 0, word |-> op.value]
    ELSE [null |-> TRUE, coil |-> FALSE, word |-> 0]

\* the write calls from a frame of the right slave to the return
WriteResponse(p, received) ==
    \E res \in {mb_parse_write_response(p.fc, p.pdu, Pending.a,
                                        IF op.kind = "write_multiple_registers"
                                        THEN op.quantity ELSE 1,
                                        ExpectedData)} :
       IF res # MB_SUCCESS THEN Fail(res)
       ELSE /\ Return(MB_SUCCESS, CountRoundTrip(stats, Len(frame), received))
            /\ UNCHANGED <<frame, plan_index, data_buffer, data_index, temp_buffer>>

\* transport.recv is called and returns; the caller examines the response and
\* goes on to the next call of transport.send or returns
TransportRecv ==
    /\ pc = "recv"
    /\ \E rx \in RecvOutcomes(Pending.slave_id, Pending.fc, Pending.a, Pending.b,
                              config.mode) :
       \E garbage \in GarbageSample :
          /\ recv_log' = Append(recv_log, rx)
          /\ IF rx.rc < 0 \/ Len(rx.data) = 0
             THEN Fail(MB_ERROR_TIMEOUT)
             ELSE \E p \in {mb_parse_frame(rx.data, config.mode)} :
                     IF p.result # MB_SUCCESS THEN Fail(p.result)
                     ELSE IF p.slave_id # Pending.slave_id
                     THEN Fail(MB_ERROR_INVALID_FRAME)
                     ELSE IF op.kind = "read_optimized"
                     THEN ReadOptimizedResponse(p, Len(rx.data), garbage)
                     ELSE IF op.kind = "read_single"
                     THEN ReadSingleResponse(p, Len(rx.data))
                     ELSE WriteResponse(p, Len(rx.data))
    /\ UNCHANGED <<request, op, plans, sent_log, masterRest>>

Next ==
    \/ ReadOptimizedCall
    \/ ReadSingleCall
    \/ WriteSingleCoilCall
    \/ WriteSingleRegisterCall
    \/ WriteMultipleRegistersCall
    \/ TransportSend
    \/ TransportRecv

Spec == Init /\ [][Next]_vars

ReadOptimizedReturned == pc = "done" /\ op.kind = "read_optimized"

\* C7: after a successful mb_master_read_optimized, entry i of the caller's
\* buffer is the value the slave holds at request.addresses[i], for every
\* requested address in request order, so that no value of an address that was
\* not requested stands in its place.
C7_BufferHoldsRequestedValues ==
    (ReadOptimizedReturned /\ result = MB_SUCCESS)
        => \A i \in DOMAIN request.addresses :
              data_buffer[i] = SlaveValue(request.function_code, request.addresses[i])

\* the request frame of a plan, byte by byte
PlanRequestFrame(plan) ==
    mb_build_frame(plan.slave_id, plan.function_code,
                   <<plan.start_address \div 256, plan.start_address % 256,
                     plan.quantity \div 256, plan.quantity % 256>>,
                   config.mode, FrameBufferSize).frame

\* round trip k went through: the frame was sent and a response was received
RoundTripDelivered(k) ==
    /\ sent_log[k].rc >= 0
    /\ recv_log[k].rc >= 0
    /\ Len(recv_log[k].data) > 0

C8_PrefixInPlanOrder ==
    op.kind = "read_optimized" =>
        /\ Len(sent_log) <= Len(plans)
        /\ \A k \in DOMAIN sent_log : sent_log[k].data = PlanRequestFrame(plans[k])
        /\ Len(recv_log) <= Len(sent_log)
        /\ Len(sent_log) <= Len(recv_log) + 1
        /\ \A k \in 1..(Len(sent_log) - 1) : RoundTripDelivered(k)

C8_StopsAtFirstFailure ==
    ReadOptimizedReturned =>
        IF result = MB_SUCCESS
        THEN /\ Len(sent_log) = Len(plans)
             /\ Len(recv_log) = Len(plans)
             /\ \A k \in DOMAIN sent_log : RoundTripDelivered(k)
        ELSE /\ Len(sent_log) \in {plan_index, plan_index + 1}
             /\ Len(sent_log) <= Len(plans) \/ plans = <<>>
             /\ (sent_log # <<>> /\ sent_log[Len(sent_log)].rc < 0)
                    => (result = MB_ERROR_TRANSPORT /\ Len(recv_log) = Len(sent_log) - 1)
             /\ (recv_log # <<>> /\ Len(recv_log) = Len(sent_log)
                                /\ ~RoundTripDelivered(Len(recv_log)))
                    => result = MB_ERROR_TIMEOUT

\* C8: within one mb_master_read_optimized call the frames handed to
\* transport.send are, in order, the request frames of a prefix of the plan
\* list, one send per plan and a recv only after its send; a call that returns
\* an error has sent and received nothing beyond the plan that failed and
\* returns that plan's error, and the step that meets an error is the last of
\* the call.
C8_SendsArePlanPrefix ==
    /\ [](C8_PrefixInPlanOrder /\ C8_StopsAtFirstFailure)
    /\ [][(op'.kind = "read_optimized" /\ result' # MB_SUCCESS) => pc' = "done"]_vars

\* the first of two plans failed on its response and the second was never sent
C8_SecondPlanNeverSent ==
    /\ ReadOptimizedReturned
    /\ Len(plans) = 2
    /\ plan_index = 0
    /\ result = MB_ERROR_EXCEPTION_RESPONSE
    /\ Len(sent_log) = 1
    /\ Len(recv_log) = 1

\* C9: in every master operation a negative return of transport.send or of
\* transport.recv comes back as MB_ERROR_TRANSPORT, and a recv that returns
\* without error with zero bytes comes back as MB_ERROR_TIMEOUT.
C9_TransportFailuresReported ==
    pc = "done" =>
        /\ (sent_log # <<>> /\ sent_log[Len(sent_log)].rc < 0)
               => result = MB_ERROR_TRANSPORT
        /\ (recv_log # <<>> /\ Len(recv_log) = Len(sent_log)
                           /\ recv_log[Len(recv_log)].rc < 0)
               => result = MB_ERROR_TRANSPORT
        /\ (recv_log # <<>> /\ Len(recv_log) = Len(sent_log)
                           /\ recv_log[Len(recv_log)].rc >= 0
                           /\ recv_log[Len(recv_log)].data = <<>>)
               => result = MB_ERROR_TIMEOUT

\* C10: total_requests counts one per executed plan: after a successful
\* mb_master_read_optimized it has grown by the number of plans executed, and
\* after a successful single read or write by exactly 1 (the statistics start
\* at zero).
C10_OneRequestPerRoundTrip ==
    (pc = "done" /\ result = MB_SUCCESS)
        => stats.total_requests
              = IF op.kind = "read_optimized" THEN Len(recv_log) ELSE 1

\* the last call of transport.recv delivered a frame
LastRecvDelivered ==
    /\ recv_log # <<>>
    /\ Len(recv_log) = Len(sent_log)
    /\ recv_log[Len(recv_log)].rc >= 0
    /\ recv_log[Len(recv_log)].data # <<>>

\* that frame, decoded
LastResponse == mb_parse_frame(recv_log[Len(recv_log)].data, config.mode)

\* the slave the last request went to
LastRequestSlave ==
    IF op.kind = "read_optimized" THEN plans[Len(sent_log)].slave_id ELSE op.slave_id

\* a call has returned after a response that decodes
ReturnedOnDecodedResponse ==
    /\ pc = "done"
    /\ LastRecvDelivered
    /\ LastResponse.result = MB_SUCCESS

\* C11 as stated: after a response that decodes, a master call returns
\* MB_ERROR_INVALID_FRAME when the response's slave id is not the requested
\* one, and otherwise MB_ERROR_EXCEPTION_RESPONSE when the response's function
\* code has bit 0x80 set.
C11_ExceptionAlwaysReported ==
    ReturnedOnDecodedResponse =>
        IF LastResponse.slave_id # LastRequestSlave
        THEN result = MB_ERROR_INVALID_FRAME
        ELSE LastResponse.fc >= 128 => result = MB_ERROR_EXCEPTION_RESPONSE

\* C11 amended: after a response that decodes, a master call returns
\* MB_ERROR_INVALID_FRAME when the response's slave id is not the requested
\* one; otherwise, when the response's function code has bit 0x80 set, it
\* returns MB_ERROR_EXCEPTION_RESPONSE if the PDU carries at least the
\* exception code byte and MB_ERROR_INVALID_FRAME if the PDU is empty.  In
\* none of these cases is the result MB_SUCCESS.
C11_ExceptionReportedWhenCodePresent ==
    ReturnedOnDecodedResponse =>
        IF LastResponse.slave_id # LastRequestSlave
        THEN result = MB_ERROR_INVALID_FRAME
        ELSE LastResponse.fc >= 128
                => result = IF Len(LastResponse.pdu) >= 1
                            THEN MB_ERROR_EXCEPTION_RESPONSE
                            ELSE MB_ERROR_INVALID_FRAME

\* a read returned after an exception frame without an exception code
C11_BareExceptionRejected ==
    /\ ReturnedOnDecodedResponse
    /\ op.kind \in {"read_optimized", "read_single"}
    /\ LastResponse.slave_id = LastRequestSlave
    /\ LastResponse.fc >= 128
    /\ LastResponse.pdu = <<>>
    /\ result = MB_ERROR_INVALID_FRAME

\* C12: mb_master_write_multiple_registers (with a values array and a send
\* callback) rejects quantity 0 and quantities above 123 with
\* MB_ERROR_INVALID_QUANTITY before any transport call, and for every quantity
\* in 1..123, in every mode, builds the request frame and hands it to
\* transport.send.
C12_WriteMultipleQuantityRange ==
    (pc # "ready" /\ op.kind = "write_multiple_registers"
                  /\ ~op.values_null /\ ~config.send_null)
        => IF op.quantity \in 1..123
           THEN pc = "send" \/ sent_log # <<>>
           ELSE /\ pc = "done"
                /\ result = MB_ERROR_INVALID_QUANTITY
                /\ sent_log = <<>>
                /\ recv_log = <<>>

\* the transaction identifier in the MBAP header of a TCP frame
MbapTransactionId(frm) == 256 * frm[1] + frm[2]

\* C16: in TCP mode two consecutive round trips of one master context carry
\* different transaction identifiers in the MBAP headers of their request
\* frames.
C16_TransactionIdsDiffer ==
    config.mode = "TCP" =>
        \A i \in 1..(Len(sent_log) - 1) :
            (sent_log[i].rc >= 0 /\ sent_log[i + 1].rc >= 0 /\ i + 1 <= Len(recv_log))
                => MbapTransactionId(sent_log[i].data)
                       # MbapTransactionId(sent_log[i + 1].data)

\* the number of blocks an address list folds into: one per maximal run of
\* consecutive addresses
OriginalBlockCount(addresses) ==
    LET held == {addresses[i] : i \in DOMAIN addresses}
    IN Cardinality({a \in held : a - 1 \notin held})

\* C17: after a successful mb_master_read_optimized on a fresh master context,
\* rounds_saved is the number of blocks the address list folds into minus the
\* number of plans executed.
C17_RoundsSavedCounted ==
    (ReadOptimizedReturned /\ result = MB_SUCCESS)
        => stats.rounds_saved
               = U32Add(NoStats.rounds_saved,
                        OriginalBlockCount(request.addresses) - Len(plans))

\* C21: a library built with MB_USE_STATIC_MEMORY calls neither malloc nor
\* free on any path of mb_master_read_optimized, the optimizer's folding and
\* packing steps included.
C21_StaticBuildLeavesHeapAlone ==
    (op.kind = "read_optimized" /\ op.static_memory) => heap_log = <<>>

\* C27: in every step of mb_master_read_optimized that handles a response, the
\* parser stays inside temp_buffer (no write past its 256 words), the copy loop
\* reads no more than the 256 words of temp_buffer, and it writes the caller's
\* data buffer below buffer_size only.
C27_BufferIndicesInRange ==
    [][(pc = "recv" /\ op.kind = "read_optimized")
           => /\ pc' # "crashed"
              /\ Len(temp_buffer') <= 2 * TempBufferWords
              /\ data_index' - data_index <= TempBufferWords
              /\ data_index' <= op.buffer_size]_vars

\* C28: a master call that returned an error without a call of transport.send
\* left every counter of master->stats as mb_master_init set it.
C28_NoSendNoStatistics ==
    (pc = "done" /\ result # MB_SUCCESS /\ sent_log = <<>>) => stats = NoStats

\* the last frame handed to transport.send, decoded
LastRequest == mb_parse_frame(sent_log[Len(sent_log)].data, config.mode)

\* C26: a master call that returns MB_SUCCESS after a round trip got a response
\* whose function code is the function code of the request frame it sent.
C26_ResponseFunctionCodeMatches ==
    (pc = "done" /\ result = MB_SUCCESS /\ LastRecvDelivered)
        => /\ LastResponse.result = MB_SUCCESS
           /\ LastResponse.fc = LastRequest.fc

(***************************************************************************)
(* SpecParse: one call of mb_parse_read_response or mb_parse_write_response *)
(***************************************************************************)
\* requested quantities around the limits of the byte count and of uint16_t
QuantitySample == {0, 1, 2, 8, 9, 127, 128, 2040, 2041, 32767, 32768, 32769, 65535}

\* a response PDU with byte count bc followed by n data bytes
CountedPdu(bc, n) == <<bc>> \o [i \in 1..n |-> (i * 37) % 256]

\* byte counts that fit, are short by one byte, or carry one byte more
ReadPduSample ==
    {<<>>} \cup UNION {{CountedPdu(bc, n) : n \in {m \in {bc - 1, bc, bc + 1} : m >= 0}} :
                          bc \in {0, 1, 2, 4, 254, 255}}

ParseReadInputs ==
    [variant : {"read"}, fc : {1, 2, 3, 4, 7, 131}, pdu : ReadPduSample,
     quantity : QuantitySample, big_endian : BOOLEAN]

\* echoes of a single write: address, then value or quantity
WritePduSample ==
    {<<0, 172>>, <<>>}
        \cup {<<a \div 256, a % 256, v \div 256, v % 256>> :
                 a \in {172, 173}, v \in {0, 1, 255, 4660, 65280}}

ParseWriteInputs ==
    [variant : {"write"}, fc : {5, 6, 15, 16, 7, 133}, pdu : WritePduSample,
     address : {172}, quantity : {1},
     expected : [null : {FALSE}, coil : BOOLEAN, word : {0, 4660}]
                    \cup {[null |-> TRUE, coil |-> FALSE, word |-> 0]}]

ParseInit ==
    /\ pc = "parse_input"
    /\ codec_in \in ParseReadInputs \cup ParseWriteInputs
    /\ decoded = NoDecoded
    /\ frame = <<>>
    /\ result = MB_SUCCESS
    /\ PipeIdle
    /\ OptIdle
    /\ MasterIdle

\* mb_parse_read_response into an empty data buffer; a loop that runs out of
\* the PDU and the buffer faults or comes back
ParseReadStep ==
    /\ pc = "parse_input"
    /\ codec_in.variant = "read"
    /\ \E r \in {mb_parse_read_response(codec_in.fc, codec_in.pdu, codec_in.quantity,
                                        <<>>, codec_in.big_endian)} :
       \E faults \in {f \in BOOLEAN : f => r.overrun} :
          /\ decoded' = r
          /\ result' = r.result
          /\ pc' = IF faults THEN "crashed" ELSE "parsed"
    /\ UNCHANGED <<pipeVars, optVars, codec_in, frame, masterVars>>

\* mb_parse_write_response
ParseWriteStep ==
    /\ pc = "parse_input"
    /\ codec_in.variant = "write"
    /\ \E res \in {mb_parse_write_response(codec_in.fc, codec_in.pdu, codec_in.address,
                                           codec_in.quantity, codec_in.expected)} :
          /\ decoded' = [result |-> res]
          /\ result' = res
          /\ pc' = "parsed"
    /\ UNCHANGED <<pipeVars, optVars, codec_in, frame, masterVars>>

ParseNext == ParseReadStep \/ ParseWriteStep

SpecParse == ParseInit /\ [][ParseNext]_vars

\* C13: an FC05 response is accepted only if the echoed address is the
\* requested address and the value field is exactly 0xFF00 when true was
\* written and exactly 0x0000 when false was written.
C13_CoilEchoExact ==
    (pc = "parsed" /\ codec_in.variant = "write" /\ codec_in.fc = 5
                   /\ ~codec_in.expected.null /\ result = MB_SUCCESS)
        => /\ Len(codec_in.pdu) >= 4
           /\ 256 * codec_in.pdu[1] + codec_in.pdu[2] = codec_in.address
           /\ 256 * codec_in.pdu[3] + codec_in.pdu[4]
                 = IF codec_in.expected.coil THEN 65280 ELSE 0

\* the byte count a read of `quantity` units of function code fc must carry
RequiredByteCount(fc, quantity) ==
    IF fc \in {1, 2} THEN (quantity + 7) \div 8 ELSE 2 * quantity

\* C14: for every quantity in 0..65535, an FC01-FC04 response PDU whose first
\* byte is not ceil(quantity/8) (bits) or 2*quantity (registers), or that
\* holds fewer data bytes than that, is rejected with MB_ERROR_INVALID_FRAME.
C14_ByteCountChecked ==
    (pc \in {"parsed", "crashed"} /\ codec_in.variant = "read" /\ codec_in.fc \in 1..4)
        => LET pdu == codec_in.pdu
               well_formed ==
                   /\ Len(pdu) >= 1
                   /\ pdu[1] = RequiredByteCount(codec_in.fc, codec_in.quantity)
                   /\ Len(pdu) - 1 >= pdu[1]
           IN ~well_formed => (pc = "parsed" /\ result = MB_ERROR_INVALID_FRAME)

(***************************************************************************)
(* SpecTcp: mb_tcp_parse_frame on frames as they come off the line          *)
(***************************************************************************)
\* most bytes that follow the six MBAP header bytes of a drawn frame
MaxTcpTail == 4

\* frames with any header fields and any number of bytes behind them, and
\* frames cut inside the header
TcpFrameSample ==
    {<<t \div 256, t % 256, p \div 256, p % 256, l \div 256, l % 256>>
        \o [i \in 1..n |-> (i * 37) % 256] :
            t \in {0, 43981}, p \in {0, 1, 256}, l \in {0, 1, 2, 3, 4, 5, 65535},
            n \in 0..MaxTcpTail}
        \cup {[i \in 1..n |-> 0] : n \in 0..5}

TcpInit ==
    /\ pc = "tcp_input"
    /\ frame \in TcpFrameSample
    /\ codec_in = NoCodecIn
    /\ decoded = NoDecoded
    /\ result = MB_SUCCESS
    /\ PipeIdle
    /\ OptIdle
    /\ MasterIdle

TcpParseStep ==
    /\ pc = "tcp_input"
    /\ \E p \in {mb_tcp_parse_frame(frame)} :
          /\ decoded' = p
          /\ result' = p.result
          /\ pc' = "tcp_parsed"
    /\ UNCHANGED <<pipeVars, optVars, codec_in, frame, masterVars>>

TcpNext == TcpParseStep

SpecTcp == TcpInit /\ [][TcpNext]_vars

\* the frame carries a complete MBAP header with protocol identifier 0 and a
\* length field that is the number of bytes behind the header
MbapConsistent(frm) ==
    /\ Len(frm) >= 6
    /\ frm[3] = 0
    /\ frm[4] = 0
    /\ Len(frm) = 6 + 256 * frm[5] + frm[6]

\* C15: mb_tcp_parse_frame succeeds only on a frame whose protocol identifier
\* is 0x0000 and whose total length is 6 plus the MBAP length field; every
\* frame that violates one of the two is rejected with MB_ERROR_INVALID_FRAME.
C15_MbapFieldsChecked ==
    pc = "tcp_parsed" =>
        /\ result = MB_SUCCESS => MbapConsistent(frame)
        /\ ~MbapConsistent(frame) => result = MB_ERROR_INVALID_FRAME

\* a full-size frame with a non-zero protocol identifier and a matching
\* length field was rejected
C15_ForeignProtocolRejected ==
    /\ pc = "tcp_parsed"
    /\ Len(frame) >= 8
    /\ 256 * frame[3] + frame[4] # 0
    /\ Len(frame) = 6 + 256 * frame[5] + frame[6]
    /\ result = MB_ERROR_INVALID_FRAME

(***************************************************************************)
(* SpecAscii: mb_ascii_parse_frame on frames as they come off the line      *)
(***************************************************************************)
\* longest PDU of a drawn ASCII frame
MaxAsciiPdu == 1

\* '0', 'A', 'G'
AsciiCharSample == {48, 65, 71}

\* s with the character c put in front of position k
InsertAt(s, k, c) == SubSeq(s, 1, k - 1) \o <<c>> \o SubSeq(s, k, Len(s))

\* the frames the encoder builds, and each of them with one more character
\* anywhere between the ':' and the CR
AsciiFrameSample ==
    LET Encoded == {mb_ascii_build_frame(slave_id, 3, pdu, FrameBufferSize).frame :
                       slave_id \in {1, 247}, pdu \in SeqsUpTo(ByteSample, MaxAsciiPdu)}
    IN Encoded \cup UNION {{InsertAt(f, k, c) : k \in 2..(Len(f) - 1), c \in AsciiCharSample} :
                              f \in Encoded}

AsciiInit ==
    /\ pc = "ascii_input"
    /\ frame \in AsciiFrameSample
    /\ codec_in = NoCodecIn
    /\ decoded = NoDecoded
    /\ result = MB_SUCCESS
    /\ PipeIdle
    /\ OptIdle
    /\ MasterIdle

AsciiParseStep ==
    /\ pc = "ascii_input"
    /\ \E p \in {mb_ascii_parse_frame(frame)} :
          /\ decoded' = p
          /\ result' = p.result
          /\ pc' = "ascii_parsed"
    /\ UNCHANGED <<pipeVars, optVars, codec_in, frame, masterVars>>

AsciiNext == AsciiParseStep

SpecAscii == AsciiInit /\ [][AsciiNext]_vars

\* the number of characters between the leading ':' and the trailing CR LF
AsciiBodyChars(frm) == Len(frm) - 3

\* C29: mb_ascii_parse_frame answers MB_ERROR_INVALID_FRAME to every frame
\* ':' ... CR LF with an odd number of characters between the ':' and the CR.
C29_OddHexCountRejected ==
    (/\ pc = "ascii_parsed"
     /\ Len(frame) >= 3
     /\ frame[1] = 58
     /\ frame[Len(frame) - 1] = 13
     /\ frame[Len(frame)] = 10
     /\ AsciiBodyChars(frame) % 2 = 1)
        => result = MB_ERROR_INVALID_FRAME

(***************************************************************************)
(* SpecPool: memory_pool.c, the static pools of a build with                *)
(* MB_USE_STATIC_MEMORY.  The three pools run the same code over arrays of  *)
(* MB_MAX_BLOCKS, MB_MAX_PDUS and MB_MAX_PLANS slots; the sizes are set at  *)
(* build time, and the pools are checked here for a build that gives each   *)
(* of them PoolCapacity slots.                                              *)
(***************************************************************************)
PoolCapacity == 3

PoolKinds == {"block", "pdu", "plan"}

\* slot i of a pool is used[i + 1]
PoolSlots == 1..PoolCapacity

\* a pool before its init call.  Besides used[] and count of the C struct a
\* pool carries what its caller knows: whether it was initialised (ready) and
\* which slots alloc has handed out since (handed).
NoPool == [ready |-> FALSE, used |-> [i \in PoolSlots |-> FALSE], count |-> 0, handed |-> {}]

\* mb_block_pool_init, mb_pdu_pool_init, mb_plan_pool_init
mb_pool_init(pool) == [pool EXCEPT !.used = [i \in PoolSlots |-> FALSE], !.count = 0]

\* mb_*_pool_alloc: the first free slot is marked and counted; [pool, slot],
\* slot 0 for the NULL of a full pool
mb_pool_alloc(pool) ==
    IF \A i \in PoolSlots : pool.used[i] THEN [pool |-> pool, slot |-> 0]
    ELSE LET first == CHOOSE i \in PoolSlots :
                          /\ ~pool.used[i]
                          /\ \A j \in 1..(i - 1) : pool.used[j]
         IN [pool |-> [pool EXCEPT !.used[first] = TRUE, !.count = U16(@ + 1)],
             slot |-> first]

\* mb_*_pool_free of a pointer: to slot `slot` of the pool, or NULL (slot 0).
\* The slot is marked free and the count goes down by one unless it is 0,
\* whether or not the slot was in use.
mb_pool_free(pool, slot) ==
    IF slot \notin PoolSlots THEN pool
    ELSE [pool EXCEPT !.used[slot] = FALSE, !.count = IF @ > 0 THEN @ - 1 ELSE @]

\* mb_*_pool_available
mb_pool_available(pool) == U16(PoolCapacity - pool.count)

\* the pools exist and none has been initialised
PoolStart ==
    /\ pc = "pool"
    /\ pools = [k \in PoolKinds |-> NoPool]
    /\ result = MB_SUCCESS
    /\ PipeIdle
    /\ OptIdle
    /\ CodecIdle
    /\ op = NoOp
    /\ plan_index = 0
    /\ data_buffer = <<>>
    /\ data_index = 0
    /\ temp_buffer = <<>>
    /\ stats = NoStats
    /\ sent_log = <<>>
    /\ recv_log = <<>>

PoolUnchanged ==
    UNCHANGED <<pc, result, pipeVars, optVars, codecVars, op, plan_index, data_buffer,
                data_index, temp_buffer, stats, sent_log, recv_log>>

\* a call of mb_*_pool_init
PoolInit ==
    /\ \E k \in PoolKinds :
          pools' = [pools EXCEPT ![k] = [mb_pool_init(@) EXCEPT !.ready = TRUE,
                                                               !.handed = {}]]
    /\ PoolUnchanged

\* a call of mb_*_pool_alloc on an initialised pool
PoolAlloc ==
    /\ \E k \in PoolKinds :
          /\ pools[k].ready
          /\ \E r \in {mb_pool_alloc(pools[k])} :
                pools' = [pools EXCEPT ![k] = [r.pool EXCEPT !.handed = @ \cup ({r.slot} \ {0})]]
    /\ PoolUnchanged

\* a call of mb_*_pool_free on an initialised pool, with NULL or with a
\* pointer alloc returned since the init, freed before or not
PoolFree ==
    /\ \E k \in PoolKinds :
          /\ pools[k].ready
          /\ \E slot \in {0} \cup pools[k].handed :
                pools' = [pools EXCEPT ![k] = mb_pool_free(@, slot)]
    /\ PoolUnchanged

PoolNext == PoolInit \/ PoolAlloc \/ PoolFree

SpecPool == PoolStart /\ [][PoolNext]_vars

\* the number of slots of a pool that are marked used
SlotsInUse(pool) == Cardinality({i \in PoolSlots : pool.used[i]})

\* C30: in each pool the count is the number of slots marked used, and
\* available() is the capacity minus the number of slots in use.
C30_CountIsSlotsInUse ==
    pc = "pool" =>
        \A k \in {j \in PoolKinds : pools[j].ready} :
            /\ pools[k].count = SlotsInUse(pools[k])
            /\ mb_pool_available(pools[k]) = PoolCapacity - SlotsInUse(pools[k])

====
